---- MODULE Spec2Model ----
(***************************************************************************)
(* Event synchronisation engine of the PAL -> TREVEE migration dashboard.  *)
(*                                                                         *)
(* Two deployments of the engine exist in the repository:                  *)
(*   "backend"  src/backend/sync.py + migration_tracker.py + database.py   *)
(*              (SQLite store, INSERT OR REPLACE, single cursor row)       *)
(*   "api"      src/api/blockchain_sync.py + db.py                         *)
(*              (Postgres store, ON CONFLICT DO NOTHING, cursor log)       *)
(* A behaviour runs one of them (variable deployment); the event table and *)
(* the cursor table are the shared state of that deployment.              *)
(***************************************************************************)
EXTENDS Integers, Sequences, FiniteSets, TLC

(***************************************************************************)
(* Bounds of the model (block numbers and batch sizes are scaled down).    *)
(***************************************************************************)
\* highest block the chain grows to
MaxHeight == 4
\* config.BATCH_SIZE / blockchain_sync batch_size (10000 in the source), scaled
BATCH_SIZE == 3
\* config.START_BLOCK (52609535 in the source), scaled
START_BLOCK == 1
\* blockchain_sync.DEFAULT_START_BLOCK (51300000 in the source), scaled
DEFAULT_START_BLOCK == 1
\* longest event list a client hands to the store directly
MaxBatchLen == 2
\* cap on the rows of the Postgres cursor log
MaxMetaRows == 3
\* most rows of a store handed to the percentile query
MaxAmounts == 5

\* sync.py: sample_size = min(len(events), 50)
SAMPLE_LIMIT == 50
\* config.MAX_RETRIES
MAX_RETRIES == 3

Passes == {"p1", "p2"}

Min(a, b) == IF a <= b THEN a ELSE b
Max(a, b) == IF a >= b THEN a ELSE b

\* Python None / SQL NULL in an integer field
None == -1
\* an event dict without the "source" key
NoSource == "absent"

VARIABLES
    deployment,     \* "backend" (SQLite) or "api" (Postgres)
    height,         \* current chain height (eth_blockNumber)
    migrations,     \* event table, rows in id order
    sync_metadata,  \* cursor table, rows in id order
    pass,           \* per sync pass: its local variables and position
    last_call       \* the last direct call of a store operation, with its result

vars == <<deployment, height, migrations, sync_metadata, pass, last_call>>

(***************************************************************************)
(* The chain.  Every block START_BLOCK, START_BLOCK+2, ... carries one     *)
(* transaction with one matching log; the block's number serves as its     *)
(* hash.  The transaction of the first such block came through the bridge. *)
(***************************************************************************)
HasLog(b) == b >= START_BLOCK /\ (b - START_BLOCK) % 2 = 0

ChainLogs == { [tx_hash |-> b, block_number |-> b] : b \in {x \in 0..MaxHeight : HasLog(x)} }

Bridged(tx) == tx = START_BLOCK

BlockTimestamp(b) == 100 + b

\* the topics of a Transfer log: signature, from, to
TransferTopics ==
    << "0xddf252ad", "0x000000000000000000000000AAAA", "0x000000000000000000000000BBBB" >>

\* _address_to_topic(MIGRATION_CONTRACT_ADDRESS): lower case, padded to 32 bytes
ContractTopic == "0x00000000000000000000000099fe40e501151e92f10ac13ea1c06083ee170363"

\* the topics of the log in block b: the sender is one of two accounts, the
\* receiver is the migration contract
TopicsOf(b) ==
    << TransferTopics[1],
       IF b = START_BLOCK THEN TransferTopics[2] ELSE TransferTopics[3],
       ContractTopic >>

\* the amount of the log in block b, in PAL
AmountOf(b) == 10 * b

\* eth_getLogs(fromBlock, toBlock) at chain height h, in block order
RECURSIVE get_logs(_, _, _)
get_logs(from_block, to_block, h) ==
    IF from_block > to_block \/ from_block > h THEN << >>
    ELSE (IF HasLog(from_block)
            THEN << [tx_hash |-> from_block, block_number |-> from_block] >>
            ELSE << >>) \o get_logs(from_block + 1, to_block, h)

(***************************************************************************)
(* Event store.                                                            *)
(***************************************************************************)
Sources == {"sonic", "ethereum", "unknown"}

TxHashes(rows) == { rows[i].tx_hash : i \in 1..Len(rows) }

RowsOf(rows, tx) == { i \in 1..Len(rows) : rows[i].tx_hash = tx }

\* the row an event becomes: migration.get("source", "unknown")
RowOf(ev) ==
    [tx_hash |-> ev.tx_hash, block_number |-> ev.block_number,
     block_timestamp |-> ev.block_timestamp,
     from_address |-> ev.from_address, to_address |-> ev.to_address,
     amount_pal |-> ev.amount_pal,
     source |-> IF ev.source = NoSource THEN "unknown" ELSE ev.source]

DropTx(rows, tx) == SelectSeq(rows, LAMBDA r : r.tx_hash # tx)

\* (mutant) the UNIQUE constraint on tx_hash is missing: nothing is replaced
InsertOrReplace_NoUnique(rows, ev) == Append(rows, RowOf(ev))

\* SQLite: INSERT OR REPLACE INTO migrations ... (tx_hash UNIQUE): the
\* conflicting row is deleted and the new row gets a fresh AUTOINCREMENT id
InsertOrReplace(rows, ev) == Append(DropTx(rows, ev.tx_hash), RowOf(ev))

\* Postgres: INSERT ... ON CONFLICT (tx_hash) DO NOTHING
InsertDoNothing(rows, ev) ==
    IF ev.tx_hash \in TxHashes(rows) THEN rows ELSE Append(rows, RowOf(ev))

\* database.py insert_migration: one statement, commit; on error rollback
insert_migration(rows, ev, err) ==
    IF err THEN [rows |-> rows, ret |-> FALSE]
    ELSE [rows |-> InsertOrReplace(rows, ev), ret |-> TRUE]

RECURSIVE ReplaceAll(_, _)
ReplaceAll(rows, evs) ==
    IF evs = << >> THEN rows
    ELSE ReplaceAll(InsertOrReplace(rows, Head(evs)), Tail(evs))

\* (mutant) no rollback: the statements executed before the one that raises
\* are committed
insert_migrations_batch_NoRollback(rows, evs, errAt) ==
    IF errAt \in 1..Len(evs)
    THEN [rows |-> ReplaceAll(rows, SubSeq(evs, 1, errAt - 1)), ret |-> 0]
    ELSE [rows |-> ReplaceAll(rows, evs), ret |-> Len(evs)]

\* database.py insert_migrations_batch: one transaction; errAt = 0 when no
\* statement raises, else the index of the event whose INSERT raises
insert_migrations_batch(rows, evs, errAt) ==
    IF errAt \in 1..Len(evs) THEN [rows |-> rows, ret |-> 0]
    ELSE [rows |-> ReplaceAll(rows, evs), ret |-> Len(evs)]

\* db.py insert_migrations.  An INSERT that raises is skipped (continue).
\* kind "client": the statement never reached the server, the transaction
\* goes on.  kind "server": Postgres aborts the transaction, every later
\* statement raises too and the final commit() rolls everything back.
RECURSIVE PgInsertAll(_, _, _, _, _)
PgInsertAll(rows, evs, i, errAt, inserted) ==
    IF i > Len(evs) THEN [rows |-> rows, ret |-> inserted]
    ELSE IF i = errAt THEN PgInsertAll(rows, evs, i + 1, errAt, inserted)
    ELSE LET new == evs[i].tx_hash \notin TxHashes(rows)
         IN  PgInsertAll(InsertDoNothing(rows, evs[i]), evs, i + 1, errAt,
                         IF new THEN inserted + 1 ELSE inserted)

insert_migrations(rows, evs, errAt, kind) ==
    IF errAt \in 1..Len(evs) /\ kind = "server"
    THEN [rows |-> rows,
          ret |-> PgInsertAll(rows, SubSeq(evs, 1, errAt - 1), 1, 0, 0).ret]
    ELSE PgInsertAll(rows, evs, 1, errAt, 0)

(***************************************************************************)
(* Cursor.                                                                 *)
(***************************************************************************)
\* database.py get_last_synced_block: SELECT ... WHERE id = 1
get_last_synced_block(meta) ==
    LET hit == { i \in 1..Len(meta) : meta[i].id = 1 }
    IN  IF hit = {} THEN 0 ELSE meta[CHOOSE i \in hit : TRUE].last_synced_block

\* database.py update_sync_metadata: UPDATE ... WHERE id = 1
update_sync_metadata(meta, last_block) ==
    [i \in 1..Len(meta) |->
        IF meta[i].id = 1 THEN [meta[i] EXCEPT !.last_synced_block = last_block]
        ELSE meta[i]]

\* db.py get_last_synced_block: ORDER BY id DESC LIMIT 1
pg_get_last_synced_block(meta) ==
    IF meta = << >> THEN 0
    ELSE LET top == CHOOSE i \in 1..Len(meta) :
                        \A j \in 1..Len(meta) : meta[j].id <= meta[i].id
         IN  meta[top].last_synced_block

\* db.py update_sync_metadata: INSERT INTO sync_metadata (last_synced_block)
pg_update_sync_metadata(meta, block_number) ==
    LET ids == { meta[i].id : i \in 1..Len(meta) }
        next == IF ids = {} THEN 1 ELSE 1 + (CHOOSE m \in ids : \A k \in ids : k <= m)
    IN  Append(meta, [id |-> next, last_synced_block |-> block_number])

\* (mutant) the default cursor row is written with INSERT OR REPLACE
init_database_Replace(meta) == << [id |-> 1, last_synced_block |-> 0] >>

\* database.py 65-80: CREATE TABLE IF NOT EXISTS sync_metadata, then
\* INSERT OR IGNORE INTO sync_metadata (id, last_synced_block, ...)
\* VALUES (1, 0, NULL); id is the primary key with CHECK (id = 1)
init_database(meta) ==
    IF \E i \in 1..Len(meta) : meta[i].id = 1 THEN meta
    ELSE Append(meta, [id |-> 1, last_synced_block |-> 0])

\* db.py 50-57: CREATE TABLE IF NOT EXISTS sync_metadata, no row is written
pg_init_database(meta) == meta

Cursor ==
    IF deployment = "backend" THEN get_last_synced_block(sync_metadata)
    ELSE pg_get_last_synced_block(sync_metadata)

(***************************************************************************)
(* Gateway (src/backend/rpc_client.py).  A response is what the node       *)
(* answers to one attempt: "transport" (session.post raises), "http_status"*)
(* (raise_for_status raises), "rpc_error" (the body holds "error"), or     *)
(* "ok" with the body's "result".                                          *)
(***************************************************************************)
Responses ==
    { [kind |-> k, result |-> None] : k \in {"transport", "http_status", "rpc_error"} }
        \cup { [kind |-> "ok", result |-> v] : v \in {1, 2} }

\* (mutant) the test for the last attempt is off by one
LastAttempt_OffByOne(attempt) == attempt = MAX_RETRIES

\* rpc_client.py 44: if attempt == MAX_RETRIES - 1: raise
LastAttempt(attempt) == attempt = MAX_RETRIES - 1

\* rpc_client.py 27-47: for attempt in range(MAX_RETRIES); responses[i] is
\* the answer to the i-th attempt if it is made.  A loop that ends without
\* return or raise makes the function return None.
RECURSIVE Attempts(_, _)
Attempts(responses, attempt) ==
    IF attempt >= MAX_RETRIES
    THEN [ret |-> None, raised |-> FALSE, attempts |-> attempt]
    ELSE IF responses[attempt + 1].kind = "ok"
    THEN [ret |-> responses[attempt + 1].result, raised |-> FALSE,
          attempts |-> attempt + 1]
    ELSE IF LastAttempt(attempt)
    THEN [ret |-> None, raised |-> TRUE, attempts |-> attempt + 1]
    ELSE Attempts(responses, attempt + 1)

make_request(responses) == Attempts(responses, 0)

(***************************************************************************)
(* Tracker (src/backend/migration_tracker.py).                             *)
(***************************************************************************)
\* eth_getCode at block b on a chain where the contract was deployed in
\* block D: code and code != "0x"
CodeAtOn(D, b) == b >= D

\* eth_getCode: the migration contract exists from START_BLOCK on
CodeAt(b) == CodeAtOn(START_BLOCK, b)

\* (mutant) the search stops at the first block found with code
RECURSIVE LocateOn_FirstHit(_, _, _, _, _, _)
LocateOn_FirstHit(D, left, right, deployment_block, n, failAt) ==
    IF left > right
    THEN [block |-> deployment_block, probes |-> n - 1, aborted |-> FALSE]
    ELSE LET mid == (left + right) \div 2
         IN  IF n = failAt
             THEN [block |-> deployment_block, probes |-> n, aborted |-> TRUE]
             ELSE IF CodeAtOn(D, mid)
             THEN [block |-> mid, probes |-> n, aborted |-> FALSE]
             ELSE LocateOn_FirstHit(D, mid + 1, right, deployment_block, n + 1, failAt)

\* (mutant) the search probes the blocks one by one from the left
RECURSIVE LocateOn_Linear(_, _, _, _, _, _)
LocateOn_Linear(D, left, right, deployment_block, n, failAt) ==
    IF left > right
    THEN [block |-> deployment_block, probes |-> n - 1, aborted |-> FALSE]
    ELSE IF n = failAt
         THEN [block |-> deployment_block, probes |-> n, aborted |-> TRUE]
         ELSE IF CodeAtOn(D, left)
         THEN [block |-> left, probes |-> n, aborted |-> FALSE]
         ELSE LocateOn_Linear(D, left + 1, right, deployment_block, n + 1, failAt)

\* migration_tracker.py 146-162: the binary search loop on a chain where
\* the contract has code from block D on; probe number failAt raises
\* (0: none does), the loop breaks and the candidate found so far is
\* returned.  probes counts the get_code calls made.
RECURSIVE LocateOn(_, _, _, _, _, _)
LocateOn(D, left, right, deployment_block, n, failAt) ==
    IF left > right
    THEN [block |-> deployment_block, probes |-> n - 1, aborted |-> FALSE]
    ELSE LET mid == (left + right) \div 2
         IN  IF n = failAt
             THEN [block |-> deployment_block, probes |-> n, aborted |-> TRUE]
             ELSE IF CodeAtOn(D, mid)
             THEN LocateOn(D, left, mid - 1, mid, n + 1, failAt)
             ELSE LocateOn(D, mid + 1, right, deployment_block, n + 1, failAt)

\* the search on the chain of this model (CodeAt)
Locate(left, right, deployment_block, n, failAt) ==
    LocateOn(START_BLOCK, left, right, deployment_block, n, failAt).block

get_contract_deployment_block(latest_block, failAt) ==
    Locate(0, latest_block, 0, 1, failAt)

\* a 32-byte topic that holds an address, and the address it holds
\* ("0x" + topic[-40:], lower case)
AddressOf(topic) ==
    CASE topic = "0x000000000000000000000000AAAA" -> "0xaaaa"
      [] topic = "0x000000000000000000000000BBBB" -> "0xbbbb"
      [] topic = ContractTopic -> "0x99fe40e501151e92f10ac13ea1c06083ee170363"
      [] OTHER -> "0x" \o "0000"

\* str.lower() on the addresses of this model
Lower(s) ==
    CASE s = "0xAAAA" -> "0xaaaa"
      [] s = "0xBBBB" -> "0xbbbb"
      [] s = "0x99fe40e501151e92F10AC13Ea1c06083ee170363"
            -> "0x99fe40e501151e92f10ac13ea1c06083ee170363"
      [] OTHER -> s

\* Web3.to_checksum_address: the EIP-55 mixed-case form of an address
to_checksum_address(s) ==
    CASE Lower(s) = "0x99fe40e501151e92f10ac13ea1c06083ee170363"
            -> "0x99fe40e501151e92F10AC13Ea1c06083ee170363"
      [] Lower(s) = "0xaaaa" -> "0xAAAA"
      [] Lower(s) = "0xbbbb" -> "0xBBBB"
      [] OTHER -> s

\* blockchain_sync.py 21
MIGRATION_CONTRACT == to_checksum_address("0x99fe40e501151e92f10ac13ea1c06083ee170363")

\* _parse_transfer_event on a well-formed log; the header lookup may fail,
\* which leaves block_timestamp None
parse_transfer_event(log, headerOk) ==
    [tx_hash |-> log.tx_hash, block_number |-> log.block_number,
     block_timestamp |-> IF headerOk THEN BlockTimestamp(log.block_number) ELSE None,
     from_address |-> AddressOf(TopicsOf(log.block_number)[2]),
     to_address |-> AddressOf(TopicsOf(log.block_number)[3]),
     amount_pal |-> AmountOf(log.block_number),
     source |-> NoSource]

\* --- the decoder on a raw log record, as eth_getLogs delivers it ---
\* the strings int(s, 16) accepts, with their values; on any other string
\* ("0x", "zz") int raises ValueError
HexStrings == {"0x0", "0x1", "0x2", "0x3", "0x4", "0x5", "0x6", "0x64"}

HexValue(s) ==
    CASE s = "0x0" -> 0 [] s = "0x1" -> 1 [] s = "0x2" -> 2 [] s = "0x3" -> 3
      [] s = "0x4" -> 4 [] s = "0x5" -> 5 [] s = "0x6" -> 6 [] s = "0x64" -> 100

\* hex(b) of a block number
ToHex(b) ==
    CASE b = 0 -> "0x0" [] b = 1 -> "0x1" [] b = 2 -> "0x2" [] b = 3 -> "0x3"
      [] b = 4 -> "0x4" [] b = 5 -> "0x5" [] b = 6 -> "0x6"

\* a missing address (Python None in a string field)
NoAddress == "None"

\* the None that _parse_transfer_event returns from its except branch
NoEvent ==
    [event |-> FALSE, from_address |-> NoAddress, to_address |-> NoAddress,
     amount |-> 0, block_number |-> 0, block_timestamp |-> None,
     tx_hash |-> None, log_index |-> 0]

\* migration_tracker.py 87-133 on a raw log
parse_transfer_event_raw(log, headerOk) ==
    LET topics == log.topics
        data == log.data
        from_address == IF Len(topics) > 1 THEN AddressOf(topics[2]) ELSE NoAddress
        to_address == IF Len(topics) > 2 THEN AddressOf(topics[3]) ELSE NoAddress
        amount_hex == IF data # "0x" THEN data ELSE "0x0"
        raises == \/ amount_hex # "" /\ amount_hex \notin HexStrings
                  \/ log.blockNumber \notin HexStrings
                  \/ log.logIndex \notin HexStrings
    IN  IF raises THEN NoEvent
        ELSE [event |-> TRUE,
              from_address |-> from_address,
              to_address |-> to_address,
              amount |-> IF amount_hex # "" THEN HexValue(amount_hex) ELSE 0,
              block_number |-> HexValue(log.blockNumber),
              block_timestamp |-> IF headerOk
                                  THEN BlockTimestamp(HexValue(log.blockNumber))
                                  ELSE None,
              tx_hash |-> log.transactionHash,
              log_index |-> HexValue(log.logIndex)]

\* the for-loop over the logs of one batch; noTs: the transactions whose
\* header lookup fails; bad: the logs on which _parse_transfer_event raises
\* inside its try and returns None, which "if event:" leaves out
ParseAll(logs, noTs, bad) ==
    LET good == SelectSeq(logs, LAMBDA l : l.tx_hash \notin bad)
    IN  [i \in 1..Len(good) |-> parse_transfer_event(good[i], good[i].tx_hash \notin noTs)]

\* analyze_transaction_source
analyze_transaction_source(tx, rpcOk) ==
    IF ~rpcOk THEN "unknown"
    ELSE IF Bridged(tx) THEN "ethereum" ELSE "sonic"

\* migration_tracker.py 213-216: Approval and bridge event signatures
bridge_signatures == {"0x8c5be1e5", "0x2849b430"}

\* (mutant) a bridge signature in any topic of a log counts
ScanReceiptLogs_AnyTopic(logs) ==
    IF \E i \in 1..Len(logs) : \E k \in 1..Len(logs[i].topics) :
           logs[i].topics[k] \in bridge_signatures
    THEN "ethereum" ELSE "sonic"

\* migration_tracker.py 218-224: the loop over the receipt's logs
RECURSIVE ScanReceiptLogs(_)
ScanReceiptLogs(logs) ==
    IF logs = << >> THEN "sonic"
    ELSE LET topics == Head(logs).topics
         IN  IF topics # << >> /\ topics[1] \in bridge_signatures THEN "ethereum"
             ELSE ScanReceiptLogs(Tail(logs))

\* migration_tracker.py 197-228 on the answers of the two lookups: kind
\* "raises" (the gateway raises), "none" (null result) or "ok" (a receipt
\* with its logs)
analyze_transaction_source_raw(tx, receipt) ==
    IF tx.kind = "raises" \/ receipt.kind = "raises" THEN "unknown"
    ELSE IF tx.kind = "none" \/ receipt.kind = "none" THEN "unknown"
    ELSE ScanReceiptLogs(receipt.logs)

\* sync.py 78-85: the first sample_size events get their "source" key
AnalyzeAll(events, unk) ==
    LET sample_size == Min(Len(events), SAMPLE_LIMIT)
    IN  [i \in 1..Len(events) |->
            IF i <= sample_size
            THEN [events[i] EXCEPT !.source =
                     analyze_transaction_source(events[i].tx_hash,
                                                events[i].tx_hash \notin unk)]
            ELSE events[i]]

\* (mutant) the sub-range end is computed without the - 1
BatchEnd_OffByOne(current_block, to_block) == Min(current_block + BATCH_SIZE, to_block)

\* end of the sub-range that starts at current_block
BatchEnd(current_block, to_block) == Min(current_block + BATCH_SIZE - 1, to_block)

(***************************************************************************)
(* Read side: the queries of src/backend/database.py and data_processor.py *)
(* (SQLite) and of src/api/db.py and index.py (Postgres).  Amounts are     *)
(* whole numbers of PAL; a quotient is kept as numerator and denominator,  *)
(* an interpolated value in hundredths.  Rows that tie on the ORDER BY key *)
(* come in table order.                                                    *)
(***************************************************************************)
\* ORDER BY key ASC over a sequence: key[i] is the key of rows[i]
OrderBy(rows, key) ==
    LET n == Len(rows)
        rank(i) == 1 + Cardinality({ j \in 1..n :
                          key[j] < key[i] \/ (key[j] = key[i] /\ j < i) })
    IN  [k \in 1..n |-> rows[CHOOSE i \in 1..n : rank(i) = k]]

\* LIMIT n
Limit(rows, n) == SubSeq(rows, 1, Min(Len(rows), n))

RECURSIVE Sum(_)
Sum(xs) == IF xs = << >> THEN 0 ELSE Head(xs) + Sum(Tail(xs))

Amounts(rows) == [i \in 1..Len(rows) |-> rows[i].amount_pal]

\* sorted(amounts) / ORDER BY amount_pal
SortedAmounts(rows) == OrderBy(Amounts(rows), Amounts(rows))

Addresses(rows) == { rows[i].from_address : i \in 1..Len(rows) }

\* the integers of a set in ascending order
SortSet(S) ==
    [k \in 1..Cardinality(S) |->
        CHOOSE x \in S : Cardinality({ y \in S : y < x }) = k - 1]

\* DATE(timestamp); a day is scaled down to two time units
DateOf(ts) == IF ts = None THEN None ELSE ts \div 2

\* ORDER BY amount_pal DESC
ByAmountDesc(rows) == OrderBy(rows, [i \in 1..Len(rows) |-> 0 - rows[i].amount_pal])

\* Postgres ORDER BY timestamp DESC: NULL timestamps come first
ByTimestampDesc(rows) ==
    OrderBy(rows, [i \in 1..Len(rows) |->
                     IF rows[i].block_timestamp = None THEN 0 - BlockTimestamp(MaxHeight + 1)
                     ELSE 0 - rows[i].block_timestamp])

\* database.py 172-185: ORDER BY block_number ASC, log_index ASC
get_all_migrations(rows) ==
    OrderBy(rows, [i \in 1..Len(rows) |-> rows[i].block_number])

\* database.py 187-201: WHERE from_address = address.lower() ORDER BY block_number
get_migrations_by_address(rows, address) ==
    get_all_migrations(SelectSeq(rows, LAMBDA r : r.from_address = Lower(address)))

\* database.py 229-286
get_statistics(rows) ==
    LET n == Len(rows)
        top == Limit(ByAmountDesc(rows), 10)
    IN  [total_migrations |-> n,
         total_pal_migrated |-> Sum(Amounts(rows)),
         unique_addresses |-> Cardinality(Addresses(rows)),
         average_migration_size |-> IF n = 0 THEN << 0, 1 >> ELSE << Sum(Amounts(rows)), n >>,
         median_migration_size |-> IF n = 0 THEN 0 ELSE SortedAmounts(rows)[n \div 2 + 1],
         top_migrations |-> [i \in 1..Len(top) |-> top[i].tx_hash],
         source_distribution |->
             { [source |-> src,
                count |-> Len(SelectSeq(rows, LAMBDA r : r.source = src))] :
                  src \in { rows[i].source : i \in 1..n } }]

\* database.py 288-308: WHERE timestamp IS NOT NULL GROUP BY DATE(timestamp)
\* ORDER BY date ASC
get_daily_stats(rows) ==
    LET dated == SelectSeq(rows, LAMBDA r : r.block_timestamp # None)
        dates == SortSet({ DateOf(dated[i].block_timestamp) : i \in 1..Len(dated) })
        day(d) == SelectSeq(dated, LAMBDA r : DateOf(r.block_timestamp) = d)
    IN  [k \in 1..Len(dates) |->
            [date |-> dates[k], migrations |-> Len(day(dates[k])),
             total_pal |-> Sum(Amounts(day(dates[k]))),
             unique_addresses |-> Cardinality(Addresses(day(dates[k])))]]

\* data_processor.py 150-169
get_address_lookup(rows, address) ==
    LET found == get_migrations_by_address(rows, address)
    IN  [address |-> address, found |-> found # << >>,
         migration_count |-> Len(found),
         total_pal_migrated |-> Sum(Amounts(found)),
         migrations |-> found]

\* data_processor.py 171-180: amount_pal >= threshold, largest first
detect_large_migrations(rows, threshold) ==
    ByAmountDesc(SelectSeq(get_all_migrations(rows),
                           LAMBDA r : r.amount_pal >= threshold))

\* data_processor.py 182-201: every migration, in the order of
\* get_all_migrations, with the running total
get_migration_timeline(rows) ==
    LET all == get_all_migrations(rows)
    IN  [i \in 1..Len(all) |->
            [tx_hash |-> all[i].tx_hash, block_number |-> all[i].block_number,
             block_timestamp |-> all[i].block_timestamp,
             from_address |-> all[i].from_address,
             amount_pal |-> all[i].amount_pal,
             cumulative_pal |-> Sum(Amounts(SubSeq(all, 1, i)))]]

\* the percentiles both implementations report
Percentiles == {10, 25, 50, 75, 90, 95, 99}

\* (mutant) the rank is taken among the N - 1 gaps: int((N - 1) * p / 100)
calculate_percentiles_LowerRank(rows) ==
    LET amounts == SortedAmounts(rows)
    IN  [empty |-> rows = << >>,
         p |-> [p \in Percentiles |->
                   LET index == ((Len(amounts) - 1) * p) \div 100
                   IN  IF rows # << >> /\ index < Len(amounts)
                       THEN 100 * amounts[index + 1] ELSE 0]]

\* data_processor.py 203-219: index = int(len(amounts) * p / 100) into the
\* sorted amounts; an empty store gives {}.  Values in hundredths.
calculate_percentiles(rows) ==
    LET amounts == SortedAmounts(rows)
    IN  [empty |-> rows = << >>,
         p |-> [p \in Percentiles |->
                   LET index == (Len(amounts) * p) \div 100
                   IN  IF rows # << >> /\ index < Len(amounts)
                       THEN 100 * amounts[index + 1] ELSE 0]]

\* Postgres PERCENTILE_CONT(p / 100) WITHIN GROUP (ORDER BY amount_pal):
\* linear interpolation between the two ranks around 1 + p / 100 * (N - 1);
\* NULL (here 0) on an empty table.  Value in hundredths.
percentile_cont(rows, p) ==
    LET amounts == SortedAmounts(rows)
        pos == p * (Len(amounts) - 1)
        lo == pos \div 100 + 1
        hi == IF pos % 100 = 0 THEN lo ELSE lo + 1
    IN  IF rows = << >> THEN 0
        ELSE 100 * amounts[lo] + (pos % 100) * (amounts[hi] - amounts[lo])

\* index.py 383-409: float(result) if result else 0, for each percentile
get_percentiles(rows) ==
    [empty |-> FALSE, p |-> [p \in Percentiles |-> percentile_cont(rows, p)]]

\* db.py 63-109
pg_get_statistics(rows) ==
    LET n == Len(rows)
        top == Limit(ByAmountDesc(rows), 10)
        stamps == { rows[i].block_timestamp : i \in 1..n } \ {None}
    IN  [total_migrations |-> n,
         unique_addresses |-> Cardinality(Addresses(rows)),
         total_pal_migrated |-> Sum(Amounts(rows)),
         average_migration |-> IF n = 0 THEN << 0, 1 >> ELSE << Sum(Amounts(rows)), n >>,
         median_migration |-> percentile_cont(rows, 50),
         first_migration |-> IF stamps = {} THEN None ELSE SortSet(stamps)[1],
         last_migration |-> IF stamps = {} THEN None
                            ELSE SortSet(stamps)[Cardinality(stamps)],
         top_migrations |-> [i \in 1..Len(top) |-> top[i].tx_hash]]

\* db.py 111-130: GROUP BY DATE(timestamp) ORDER BY date; r['date'].isoformat()
\* raises on the group of the rows without timestamp
pg_get_daily_stats(rows) ==
    LET dates == SortSet({ DateOf(rows[i].block_timestamp) : i \in 1..Len(rows) })
        day(d) == SelectSeq(rows, LAMBDA r : DateOf(r.block_timestamp) = d)
    IN  [raised |-> \E i \in 1..Len(rows) : rows[i].block_timestamp = None,
         stats |-> [k \in 1..Len(dates) |->
                      [date |-> dates[k], count |-> Len(day(dates[k])),
                       amount |-> Sum(Amounts(day(dates[k])))]]]

\* db.py 132-151: ORDER BY timestamp DESC LIMIT limit
get_timeline(rows, limit) == Limit(ByTimestampDesc(rows), limit)

\* db.py 153-180: WHERE LOWER(from_address) = LOWER(address) ORDER BY timestamp DESC
lookup_address(rows, address) ==
    LET found == ByTimestampDesc(SelectSeq(rows,
                     LAMBDA r : Lower(r.from_address) = Lower(address)))
    IN  [address |-> address, migrations |-> found,
         total_amount |-> Sum(Amounts(found)), count |-> Len(found)]

\* db.py 182-201: WHERE amount_pal > threshold ORDER BY amount_pal DESC
get_large_migrations(rows, threshold) ==
    ByAmountDesc(SelectSeq(rows, LAMBDA r : r.amount_pal > threshold))

\* api.py 148-159, index.py 411-430: the cursor with the time of the answer
\* (datetime.now()); index.py adds the status
get_sync_status(last_block, now) ==
    [last_synced_block |-> last_block, last_update |-> now,
     status |-> IF deployment = "backend" THEN "absent"
                ELSE IF last_block > 0 THEN "synced" ELSE "not_synced"]

(***************************************************************************)
(* The SQLite-to-Postgres tool (src/api/migrate_sqlite_to_postgres.py).    *)
(***************************************************************************)
\* 166-172: INSERT INTO sync_metadata (id, ...) VALUES (1, max_block, NOW())
\* ON CONFLICT (id) DO UPDATE
pg_upsert_cursor(meta, max_block) ==
    IF \E i \in 1..Len(meta) : meta[i].id = 1
    THEN [i \in 1..Len(meta) |->
             IF meta[i].id = 1 THEN [meta[i] EXCEPT !.last_synced_block = max_block]
             ELSE meta[i]]
    ELSE << [id |-> 1, last_synced_block |-> max_block] >> \o meta

\* 161-162: SELECT MAX(block_number) FROM migrations (None on an empty table)
MaxBlock(rows) ==
    IF rows = << >> THEN None
    ELSE CHOOSE b \in { rows[i].block_number : i \in 1..Len(rows) } :
             \A i \in 1..Len(rows) : rows[i].block_number <= b

\* (mutant) --force deletes without asking for the confirmation
migrate_data_NoConfirm(rows, meta, sqlite_rows, force_delete, dry_run, confirm, err) ==
    IF dry_run THEN [rows |-> rows, meta |-> meta]
    ELSE LET kept == IF force_delete THEN << >> ELSE rows
             max_block == MaxBlock(sqlite_rows)
         IN  IF err THEN [rows |-> kept, meta |-> meta]
             ELSE [rows |-> PgInsertAll(kept, sqlite_rows, 1, 0, 0).rows,
                   meta |-> IF max_block > 0 THEN pg_upsert_cursor(meta, max_block)
                            ELSE meta]

\* migrate_data(force_delete, dry_run) 23-213 on the Postgres tables rows and
\* meta.  sqlite_rows: the rows read from SQLite (57-67); confirm: what the
\* operator types at the prompt (87); err: the batch insert raises
\* psycopg2.Error, which rolls back the inserts (193-197) but not the
\* DELETE committed before (93-94)
migrate_data(rows, meta, sqlite_rows, force_delete, dry_run, confirm, err) ==
    IF dry_run THEN [rows |-> rows, meta |-> meta]
    ELSE IF force_delete /\ confirm # "DELETE" THEN [rows |-> rows, meta |-> meta]
    ELSE LET kept == IF force_delete THEN << >> ELSE rows
             max_block == MaxBlock(sqlite_rows)
         IN  IF err THEN [rows |-> kept, meta |-> meta]
             ELSE [rows |-> PgInsertAll(kept, sqlite_rows, 1, 0, 0).rows,
                   meta |-> IF max_block > 0 THEN pg_upsert_cursor(meta, max_block)
                            ELSE meta]

(***************************************************************************)
(* Sync passes.  A pass record holds the local variables of one call of    *)
(* sync_migrations; visited, failed, undecoded, incremental, cursor0 and   *)
(* store_error record what the call went through (the code only prints     *)
(* it): the sub-ranges taken, those whose fetch raised, the logs whose      *)
(* decoding raised or returned None, whether the start block came from the *)
(* cursor, the cursor when the call began, a store error in its insert.    *)
(***************************************************************************)
IdlePass ==
    [pc |-> "idle", from_block |-> 0, to_block |-> 0, batch_start |-> 0,
     all_events |-> << >>, visited |-> << >>, failed |-> {}, undecoded |-> {},
     incremental |-> FALSE,
     result |-> "none", cursor0 |-> 0, store_error |-> FALSE]

NoCall == [op |-> "none", arg |-> << >>, ret |-> 0, fresh |-> FALSE, raised |-> FALSE]

Init ==
    /\ deployment \in {"backend", "api"}
    /\ height = 0
    /\ migrations = << >>
    \* database.py init_database inserts the cursor row (1, 0); db.py
    \* leaves the table empty
    /\ sync_metadata = IF deployment = "backend"
                       THEN init_database(<< >>)
                       ELSE pg_init_database(<< >>)
    /\ pass = [p \in Passes |-> IdlePass]
    /\ last_call = NoCall

\* a new block is produced
ChainAdvance ==
    /\ height < MaxHeight
    /\ height' = height + 1
    /\ UNCHANGED <<deployment, migrations, sync_metadata, pass, last_call>>

Done(p, res) == [pass[p] EXCEPT !.pc = "done", !.result = res]

Running == { p \in Passes : pass[p].pc \notin {"idle", "done"} }

(***************************************************************************)
(* backend: src/backend/sync.py sync_migrations                            *)
(***************************************************************************)
\* (mutant) the pass starts again at the cursor block itself
IncrementalStart_NoPlusOne(last_synced, default_block) ==
    IF last_synced > 0 THEN last_synced ELSE default_block

\* sync.py 46, blockchain_sync.py 53:
\*   last_synced + 1 if last_synced > 0 else <default start block>
IncrementalStart(last_synced, default_block) ==
    IF last_synced > 0 THEN last_synced + 1 ELSE default_block

\* (mutant) the located block is taken whenever the locator returns
full_sync_from_block_NoFloor(deployment_block, raised) ==
    IF raised THEN START_BLOCK ELSE deployment_block

\* sync.py 33-42: from_block = START_BLOCK, replaced by the located block
\* when the locator returns one that is greater; an exception of the
\* locator is caught and leaves START_BLOCK
full_sync_from_block(deployment_block, raised) ==
    IF ~raised /\ deployment_block > START_BLOCK
    THEN deployment_block ELSE START_BLOCK

\* sync.py 26-47: start block of a pass
\*   full: START_BLOCK or the located deployment block if larger; the
\*         locator's own eth_blockNumber may raise (locOk)
\*   else: cursor + 1, or START_BLOCK when the cursor is 0
Begin(p, full, locOk, failAt) ==
    /\ deployment = "backend"
    /\ pass[p].pc \in {"idle", "done"}
    /\ LET last_synced == get_last_synced_block(sync_metadata)
           deployment_block == get_contract_deployment_block(height, failAt)
           from_block ==
               IF full
               THEN full_sync_from_block(deployment_block, ~locOk)
               ELSE IncrementalStart(last_synced, START_BLOCK)
       IN  pass' = [pass EXCEPT ![p] =
                      [IdlePass EXCEPT !.pc = "get_height",
                                       !.from_block = from_block,
                                       !.incremental = ~full,
                                       !.cursor0 = last_synced]]
    /\ UNCHANGED <<deployment, height, migrations, sync_metadata, last_call>>

\* (mutant) no "already up to date" return: the scan always starts
GetHeight_AlwaysScan(p, ok) ==
    /\ deployment = "backend"
    /\ pass[p].pc = "get_height"
    /\ pass' = [pass EXCEPT ![p] =
          IF ~ok THEN Done(p, "False")
          ELSE [@ EXCEPT !.pc = "scan", !.to_block = height,
                         !.batch_start = pass[p].from_block]]
    /\ UNCHANGED <<deployment, height, migrations, sync_metadata, last_call>>

\* sync.py 49-59: read the chain height once
GetHeight(p, ok) ==
    /\ deployment = "backend"
    /\ pass[p].pc = "get_height"
    /\ pass' = [pass EXCEPT ![p] =
          IF ~ok THEN Done(p, "False")
          ELSE IF pass[p].from_block > height
               THEN [Done(p, "True") EXCEPT !.to_block = height]
               ELSE [@ EXCEPT !.pc = "scan", !.to_block = height,
                              !.batch_start = pass[p].from_block]]
    /\ UNCHANGED <<deployment, height, migrations, sync_metadata, last_call>>

\* (mutant) the loop does not move on to the next sub-range
Scan_NoAdvance(p, ok, noTs, bad) ==
    /\ deployment = "backend"
    /\ pass[p].pc = "scan"
    /\ LET current_block == pass[p].batch_start
           to_block == pass[p].to_block
           batch_end == BatchEnd(current_block, to_block)
           logs == get_logs(current_block, batch_end, height)
       IN  /\ bad \subseteq (IF ok THEN TxHashes(logs) ELSE {})
           /\ noTs \subseteq (IF ok THEN TxHashes(logs) \ bad ELSE {})
           /\ pass' = [pass EXCEPT ![p] =
                 [@ EXCEPT
                    !.all_events = IF ok THEN @ \o ParseAll(logs, noTs, bad) ELSE @,
                    !.undecoded = @ \cup bad,
                    !.visited = Append(@, <<current_block, batch_end>>),
                    !.failed = IF ok THEN @ ELSE @ \cup {<<current_block, batch_end>>},
                    !.pc = IF current_block <= to_block THEN "scan" ELSE "persist"]]
    /\ UNCHANGED <<deployment, height, migrations, sync_metadata, last_call>>

\* (mutant) a fetch that fails ends the scan loop
Scan_BreakOnFailure(p, ok, noTs, bad) ==
    /\ deployment = "backend"
    /\ pass[p].pc = "scan"
    /\ LET current_block == pass[p].batch_start
           to_block == pass[p].to_block
           batch_end == BatchEnd(current_block, to_block)
           logs == get_logs(current_block, batch_end, height)
       IN  /\ bad \subseteq (IF ok THEN TxHashes(logs) ELSE {})
           /\ noTs \subseteq (IF ok THEN TxHashes(logs) \ bad ELSE {})
           /\ pass' = [pass EXCEPT ![p] =
                 [@ EXCEPT
                    !.all_events = IF ok THEN @ \o ParseAll(logs, noTs, bad) ELSE @,
                    !.undecoded = @ \cup bad,
                    !.visited = Append(@, <<current_block, batch_end>>),
                    !.failed = IF ok THEN @ ELSE @ \cup {<<current_block, batch_end>>},
                    !.batch_start = batch_end + 1,
                    !.pc = IF ok /\ batch_end + 1 <= to_block THEN "scan" ELSE "persist"]]
    /\ UNCHANGED <<deployment, height, migrations, sync_metadata, last_call>>

\* migration_tracker.py 45-76: one iteration of the scan loop
Scan(p, ok, noTs, bad) ==
    /\ deployment = "backend"
    /\ pass[p].pc = "scan"
    /\ LET current_block == pass[p].batch_start
           to_block == pass[p].to_block
           batch_end == BatchEnd(current_block, to_block)
           logs == get_logs(current_block, batch_end, height)
       IN  /\ bad \subseteq (IF ok THEN TxHashes(logs) ELSE {})
           /\ noTs \subseteq (IF ok THEN TxHashes(logs) \ bad ELSE {})
           /\ pass' = [pass EXCEPT ![p] =
                 [@ EXCEPT
                    !.all_events = IF ok THEN @ \o ParseAll(logs, noTs, bad) ELSE @,
                    !.undecoded = @ \cup bad,
                    !.visited = Append(@, <<current_block, batch_end>>),
                    !.failed = IF ok THEN @ ELSE @ \cup {<<current_block, batch_end>>},
                    !.batch_start = batch_end + 1,
                    !.pc = IF batch_end + 1 <= to_block THEN "scan" ELSE "persist"]]
    /\ UNCHANGED <<deployment, height, migrations, sync_metadata, last_call>>

\* sync.py 71-74: no events, the cursor goes to the height read at the start
PersistNone(p, ok) ==
    /\ deployment = "backend"
    /\ pass[p].pc = "persist"
    /\ pass[p].all_events = << >>
    /\ sync_metadata' = IF ok THEN update_sync_metadata(sync_metadata, pass[p].to_block)
                        ELSE sync_metadata
    /\ pass' = [pass EXCEPT ![p] = Done(p, IF ok THEN "True" ELSE "False")]
    /\ UNCHANGED <<deployment, height, migrations, last_call>>

\* sync.py 76-92: classify the sources, then insert the batch in one
\* transaction; insert_migrations_batch swallows a store error and returns 0
Persist(p, unk, errAt) ==
    /\ deployment = "backend"
    /\ pass[p].pc = "persist"
    /\ pass[p].all_events # << >>
    /\ unk \subseteq TxHashes(pass[p].all_events)
    /\ errAt \in 0..Len(pass[p].all_events)
    /\ LET events == AnalyzeAll(pass[p].all_events, unk)
           r == insert_migrations_batch(migrations, events, errAt)
       IN  /\ migrations' = r.rows
           /\ pass' = [pass EXCEPT ![p] =
                 [@ EXCEPT !.pc = "cursor", !.all_events = events,
                           !.store_error = (errAt # 0)]]
    /\ UNCHANGED <<deployment, height, sync_metadata, last_call>>

\* sync.py 94-95: db.update_sync_metadata(current_block)
UpdateCursor(p, ok) ==
    /\ deployment = "backend"
    /\ pass[p].pc = "cursor"
    /\ sync_metadata' = IF ok THEN update_sync_metadata(sync_metadata, pass[p].to_block)
                        ELSE sync_metadata
    /\ pass' = [pass EXCEPT ![p] =
          IF ok THEN [@ EXCEPT !.pc = "summary"] ELSE Done(p, "False")]
    /\ UNCHANGED <<deployment, height, migrations, last_call>>

\* sync.py 97-125: daily snapshot and summary; an exception there makes the
\* pass return False
Summary(p, ok) ==
    /\ deployment = "backend"
    /\ pass[p].pc = "summary"
    /\ pass' = [pass EXCEPT ![p] = Done(p, IF ok THEN "True" ELSE "False")]
    /\ UNCHANGED <<deployment, height, migrations, sync_metadata, last_call>>

(***************************************************************************)
(* api: src/api/blockchain_sync.py sync_migrations(start_block, end_block) *)
(***************************************************************************)
\* blockchain_sync.py 33-47, 57-58: connect, read the current block, fix
\* the end block; from_block holds the start_block argument until ApiStart
ApiBegin(p, ok, start_arg, end_arg) ==
    /\ deployment = "api"
    /\ pass[p].pc \in {"idle", "done"}
    /\ Len(sync_metadata) + Cardinality(Running) < MaxMetaRows
    /\ pass' = [pass EXCEPT ![p] =
          IF ~ok THEN [IdlePass EXCEPT !.pc = "done", !.result = "raised"]
          ELSE [IdlePass EXCEPT !.pc = "start", !.from_block = start_arg,
                                !.incremental = (start_arg = None),
                                !.to_block = IF end_arg = None THEN height ELSE end_arg,
                                !.cursor0 = Cursor]]
    /\ UNCHANGED <<deployment, height, migrations, sync_metadata, last_call>>

\* blockchain_sync.py 49-55: start block; a failing cursor read falls back
\* to DEFAULT_START_BLOCK
ApiStart(p, ok) ==
    /\ deployment = "api"
    /\ pass[p].pc = "start"
    /\ LET last_synced == pg_get_last_synced_block(sync_metadata)
           start_block ==
               IF pass[p].from_block # None THEN pass[p].from_block
               ELSE IF ok THEN IncrementalStart(last_synced, DEFAULT_START_BLOCK)
               ELSE DEFAULT_START_BLOCK
       IN  pass' = [pass EXCEPT ![p] =
              [@ EXCEPT !.from_block = start_block, !.batch_start = start_block,
                        !.pc = IF start_block <= pass[p].to_block
                               THEN "scan" ELSE "persist"]]
    /\ UNCHANGED <<deployment, height, migrations, sync_metadata, last_call>>

\* blockchain_sync.py 66-111: one iteration of the range() loop.  ok: the
\* fetch succeeds; raiseAt: index of the log whose decoding (topics, data,
\* get_block) raises (0: none), which ends the iteration with the events
\* decoded before it kept
ApiScan(p, ok, raiseAt) ==
    /\ deployment = "api"
    /\ pass[p].pc = "scan"
    /\ LET batch_start == pass[p].batch_start
           end_block == pass[p].to_block
           batch_end == BatchEnd(batch_start, end_block)
           logs == get_logs(batch_start, batch_end, height)
           upto == IF raiseAt = 0 THEN Len(logs) ELSE raiseAt - 1
           \* from_address: "0x" + topics[1].hex()[26:], lower-case hex digits;
           \* to_address: MIGRATION_CONTRACT
           decoded == [i \in 1..upto |->
                         [parse_transfer_event(logs[i], TRUE) EXCEPT
                             !.to_address = MIGRATION_CONTRACT,
                             !.source = "sonic"]]
       IN  /\ raiseAt \in 0..(IF ok THEN Len(logs) ELSE 0)
           /\ pass' = [pass EXCEPT ![p] =
                 [@ EXCEPT
                    !.all_events = IF ok THEN @ \o decoded ELSE @,
                    !.visited = Append(@, <<batch_start, batch_end>>),
                    !.failed = IF ok THEN @ ELSE @ \cup {<<batch_start, batch_end>>},
                    !.undecoded = IF raiseAt = 0 THEN @
                                  ELSE @ \cup {logs[raiseAt].tx_hash},
                    !.batch_start = batch_start + BATCH_SIZE,
                    !.pc = IF batch_start + BATCH_SIZE <= end_block
                           THEN "scan" ELSE "persist"]]
    /\ UNCHANGED <<deployment, height, migrations, sync_metadata, last_call>>

\* blockchain_sync.py 122-125: nothing found, the cursor is not written
ApiPersistNone(p) ==
    /\ deployment = "api"
    /\ pass[p].pc = "persist"
    /\ pass[p].all_events = << >>
    /\ pass' = [pass EXCEPT ![p] = Done(p, "count")]
    /\ UNCHANGED <<deployment, height, migrations, sync_metadata, last_call>>

\* blockchain_sync.py 114-117: insert_migrations(all_migrations); a failing
\* connection (kind "connect") raises out of the pass
ApiPersist(p, errAt, kind) ==
    /\ deployment = "api"
    /\ pass[p].pc = "persist"
    /\ pass[p].all_events # << >>
    /\ errAt \in 0..Len(pass[p].all_events)
    /\ (errAt = 0) = (kind = "none")
    /\ LET r == insert_migrations(migrations, pass[p].all_events, errAt, kind)
       IN  IF kind = "connect"
           THEN /\ migrations' = migrations
                /\ pass' = [pass EXCEPT ![p] =
                              [Done(p, "raised") EXCEPT !.store_error = TRUE]]
           ELSE /\ migrations' = r.rows
                /\ pass' = [pass EXCEPT ![p] =
                              [@ EXCEPT !.pc = "cursor", !.store_error = (errAt # 0)]]
    /\ UNCHANGED <<deployment, height, sync_metadata, last_call>>

\* blockchain_sync.py 119-125: update_sync_metadata(end_block), return the count
ApiCursor(p, ok) ==
    /\ deployment = "api"
    /\ pass[p].pc = "cursor"
    /\ sync_metadata' = IF ok THEN pg_update_sync_metadata(sync_metadata, pass[p].to_block)
                        ELSE sync_metadata
    /\ pass' = [pass EXCEPT ![p] = Done(p, IF ok THEN "count" ELSE "raised")]
    /\ UNCHANGED <<deployment, height, migrations, last_call>>

(***************************************************************************)
(* Cancellation.  The process is interrupted (Ctrl+C in sync.py main, a    *)
(* kill) while a pass is in its scan loop, after one sub-range and before  *)
(* the next: the events collected so far are in memory only and no         *)
(* statement of sync_migrations runs any more.                             *)
(***************************************************************************)
\* (mutant) the interrupted pass saves its progress: it writes the end of the
\* last sub-range it took to the cursor
Abort_SavesProgress(p) ==
    /\ pass[p].pc = "scan"
    /\ pass[p].visited # << >>
    /\ LET done == pass[p].visited[Len(pass[p].visited)][2]
       IN  sync_metadata' = IF deployment = "backend"
                            THEN update_sync_metadata(sync_metadata, done)
                            ELSE pg_update_sync_metadata(sync_metadata, done)
    /\ pass' = [pass EXCEPT ![p] = Done(p, "aborted")]
    /\ UNCHANGED <<deployment, height, migrations, last_call>>

Abort(p) ==
    /\ pass[p].pc = "scan"
    /\ pass[p].visited # << >>
    /\ pass' = [pass EXCEPT ![p] = Done(p, "aborted")]
    /\ UNCHANGED <<deployment, height, migrations, sync_metadata, last_call>>

(***************************************************************************)
(* Direct calls of the store's operations by a client (demo_data.py calls  *)
(* insert_migrations_batch and update_sync_metadata; the CLI and the tests *)
(* of a store call the others).  last_call keeps the last call that        *)
(* returned a value, with that value.                                      *)
(***************************************************************************)
TxUniverse == { b \in 0..MaxHeight : HasLog(b) }

\* the events a client hands over: with or without a "source" key
Events(srcs) ==
    { [tx_hash |-> t, block_number |-> t,
       block_timestamp |-> BlockTimestamp(t),
       from_address |-> AddressOf(TopicsOf(t)[2]),
       to_address |-> AddressOf(TopicsOf(t)[3]),
       amount_pal |-> AmountOf(t), source |-> s] :
         t \in TxUniverse, s \in srcs }

RECURSIVE SeqsUpTo(_, _)
SeqsUpTo(S, n) ==
    IF n = 0 THEN { << >> }
    ELSE LET shorter == SeqsUpTo(S, n - 1)
         IN  shorter \cup { Append(q, e) : q \in shorter, e \in S }

Batches(srcs, n) == SeqsUpTo(Events(srcs), n)

Distinct(evs) ==
    \A i, j \in 1..Len(evs) : evs[i].tx_hash = evs[j].tx_hash => i = j

\* N events with pairwise distinct tx_hash, none of them in the store
Fresh(evs, rows) == Distinct(evs) /\ TxHashes(evs) \cap TxHashes(rows) = {}

\* database.py 99-132
InsertMigration(ev, err) ==
    /\ deployment = "backend"
    /\ LET r == insert_migration(migrations, ev, err)
       IN  /\ migrations' = r.rows
           /\ last_call' = [op |-> "insert_migration", arg |-> << ev >>,
                            ret |-> IF r.ret THEN 1 ELSE 0,
                            fresh |-> Fresh(<< ev >>, migrations), raised |-> FALSE]
    /\ UNCHANGED <<deployment, height, sync_metadata, pass>>

\* database.py 134-170
InsertMigrationsBatch(evs, errAt) ==
    /\ deployment = "backend"
    /\ errAt \in 0..Len(evs)
    /\ LET r == insert_migrations_batch(migrations, evs, errAt)
       IN  /\ migrations' = r.rows
           /\ last_call' = [op |-> "insert_migrations_batch", arg |-> evs,
                            ret |-> r.ret,
                            fresh |-> errAt = 0 /\ Fresh(evs, migrations),
                            raised |-> FALSE, errAt |-> errAt]
    /\ UNCHANGED <<deployment, height, sync_metadata, pass>>

\* db.py 221-255
PgInsertMigrations(evs, errAt, kind) ==
    /\ deployment = "api"
    /\ errAt \in 0..Len(evs)
    /\ (errAt = 0) = (kind = "none")
    /\ LET r == insert_migrations(migrations, evs, errAt, kind)
       IN  /\ migrations' = r.rows
           /\ last_call' = [op |-> "insert_migrations", arg |-> evs,
                            ret |-> r.ret,
                            fresh |-> errAt = 0 /\ Fresh(evs, migrations),
                            raised |-> FALSE]
    /\ UNCHANGED <<deployment, height, sync_metadata, pass>>

\* database.py 214-227
UpdateSyncMetadata(last_block) ==
    /\ deployment = "backend"
    /\ sync_metadata' = update_sync_metadata(sync_metadata, last_block)
    /\ UNCHANGED <<deployment, height, migrations, pass, last_call>>

\* db.py 257-269
PgUpdateSyncMetadata(block_number) ==
    /\ deployment = "api"
    /\ Len(sync_metadata) < MaxMetaRows
    /\ sync_metadata' = pg_update_sync_metadata(sync_metadata, block_number)
    /\ UNCHANGED <<deployment, height, migrations, pass, last_call>>

\* database.py 203-212, db.py 203-219
GetLastSyncedBlock ==
    /\ last_call' = [op |-> "get_last_synced_block", arg |-> << >>,
                     ret |-> Cursor, fresh |-> FALSE, raised |-> FALSE]
    /\ UNCHANGED <<deployment, height, migrations, sync_metadata, pass>>

\* rpc_client.py 18-47: one call of _make_request
MakeRequest(responses) ==
    /\ LET r == make_request(responses)
       IN  last_call' = [op |-> "_make_request", arg |-> responses, ret |-> r.ret,
                         fresh |-> FALSE, raised |-> r.raised, attempts |-> r.attempts]
    /\ UNCHANGED <<deployment, height, migrations, sync_metadata, pass>>

\* raw logs handed to the decoder: 0 to 3 topics, well-formed and malformed
\* data, block number and log index
RawLogs ==
    { [topics |-> SubSeq(TransferTopics, 1, n), data |-> d, blockNumber |-> bn,
       transactionHash |-> t, logIndex |-> li] :
        n \in 0..3, d \in {"0x", "0x64", "", "zz"},
        bn \in {ToHex(b) : b \in TxUniverse} \cup {"zz"}, t \in TxUniverse,
        li \in {"0x0", "zz"} }

\* migration_tracker.py 87-133: one call of _parse_transfer_event
ParseTransferEvent(log, headerOk) ==
    /\ deployment = "backend"
    /\ LET ev == parse_transfer_event_raw(log, headerOk)
       IN  last_call' = [op |-> "_parse_transfer_event", arg |-> << log >>,
                         ret |-> IF ev.event THEN 1 ELSE 0, fresh |-> FALSE,
                         raised |-> FALSE, event |-> ev]
    /\ UNCHANGED <<deployment, height, migrations, sync_metadata, pass>>

\* migration_tracker.py 135-166: one call of get_contract_deployment_block
\* on a chain of height latest_block with the contract's code from block D
\* on; heightOk: its own get_block_number succeeds (an exception of it is
\* not caught)
GetContractDeploymentBlock(D, latest_block, heightOk, failAt) ==
    /\ LET r == LocateOn(D, 0, latest_block, 0, 1, failAt)
       IN  last_call' =
             IF heightOk
             THEN [op |-> "get_contract_deployment_block",
                   arg |-> << D, latest_block, failAt >>, ret |-> r.block,
                   fresh |-> FALSE, raised |-> FALSE,
                   probes |-> r.probes, aborted |-> r.aborted]
             ELSE [op |-> "get_contract_deployment_block",
                   arg |-> << D, latest_block, 0 >>, ret |-> None,
                   fresh |-> FALSE, raised |-> TRUE,
                   probes |-> 0, aborted |-> FALSE]
    /\ UNCHANGED <<deployment, height, migrations, sync_metadata, pass>>

\* sync.py 31-42: the start block of a full sync on a chain of height
\* latest_block with the contract's code from block D on; heightOk and
\* failAt as for GetContractDeploymentBlock
FullSyncStart(D, latest_block, heightOk, failAt) ==
    /\ deployment = "backend"
    /\ LET r == LocateOn(D, 0, latest_block, 0, 1, failAt)
           deployment_block == IF heightOk THEN r.block ELSE None
       IN  last_call' =
             [op |-> "full_sync_start",
              arg |-> << D, latest_block, IF heightOk THEN failAt ELSE 0 >>,
              ret |-> full_sync_from_block(deployment_block, ~heightOk),
              fresh |-> FALSE, raised |-> FALSE,
              located |-> deployment_block, locator_raised |-> ~heightOk,
              aborted |-> heightOk /\ r.aborted]
    /\ UNCHANGED <<deployment, height, migrations, sync_metadata, pass>>

\* MigrationDatabase.__init__ (database.py 22-23) and db.py init_database
\* on a store that exists already: a process that starts again
InitDatabase ==
    /\ sync_metadata' = IF deployment = "backend"
                        THEN init_database(sync_metadata)
                        ELSE pg_init_database(sync_metadata)
    /\ last_call' = [op |-> "init_database", arg |-> << >>, ret |-> 0,
                     fresh |-> FALSE, raised |-> FALSE]
    /\ UNCHANGED <<deployment, height, migrations, pass>>

\* --- the read side, called by the HTTP handlers of api.py and index.py ---
\* what a read leaves in last_call: its argument, its answer and the store
\* it was computed from
ReadCall(op, query, result, raised) ==
    [op |-> op, arg |-> << >>, ret |-> 0, fresh |-> FALSE, raised |-> raised,
     query |-> query, result |-> result, seen |-> << migrations, sync_metadata >>]

\* api.py 42-49 / index.py 292-302
GetStatistics ==
    /\ last_call' = ReadCall("get_statistics", << >>,
                             IF deployment = "backend" THEN get_statistics(migrations)
                             ELSE pg_get_statistics(migrations), FALSE)
    /\ UNCHANGED <<deployment, height, migrations, sync_metadata, pass>>

\* api.py 52-59 / index.py 304-313
GetDailyStats ==
    /\ last_call' = IF deployment = "backend"
                    THEN ReadCall("get_daily_stats", << >>, get_daily_stats(migrations), FALSE)
                    ELSE ReadCall("get_daily_stats", << >>,
                                  pg_get_daily_stats(migrations).stats,
                                  pg_get_daily_stats(migrations).raised)
    /\ UNCHANGED <<deployment, height, migrations, sync_metadata, pass>>

\* api.py 73-80 (no limit argument) / index.py 340-350
GetTimeline(limit) ==
    /\ last_call' = ReadCall("get_timeline", << limit >>,
                             IF deployment = "backend" THEN get_migration_timeline(migrations)
                             ELSE get_timeline(migrations, limit), FALSE)
    /\ UNCHANGED <<deployment, height, migrations, sync_metadata, pass>>

\* api.py 83-90 / index.py 352-369
LookupAddress(address) ==
    /\ last_call' = ReadCall("lookup_address", << address >>,
                             IF deployment = "backend"
                             THEN get_address_lookup(migrations, address).migrations
                             ELSE lookup_address(migrations, address).migrations, FALSE)
    /\ UNCHANGED <<deployment, height, migrations, sync_metadata, pass>>

\* api.py 93-101 / index.py 371-381
GetLargeMigrations(threshold) ==
    /\ last_call' = ReadCall("get_large_migrations", << threshold >>,
                             IF deployment = "backend"
                             THEN detect_large_migrations(migrations, threshold)
                             ELSE get_large_migrations(migrations, threshold), FALSE)
    /\ UNCHANGED <<deployment, height, migrations, sync_metadata, pass>>

\* api.py 104-111 / index.py 383-409
GetPercentiles ==
    /\ last_call' = ReadCall("get_percentiles", << >>,
                             IF deployment = "backend" THEN calculate_percentiles(migrations)
                             ELSE get_percentiles(migrations), FALSE)
    /\ UNCHANGED <<deployment, height, migrations, sync_metadata, pass>>

\* api.py 148-159 / index.py 411-430; now: the clock when the handler runs
GetSyncStatus(now) ==
    /\ last_call' = ReadCall("get_sync_status", << >>, get_sync_status(Cursor, now), FALSE)
    /\ UNCHANGED <<deployment, height, migrations, sync_metadata, pass>>

\* the clock readings of two calls
Times == 1..2

\* the limits, addresses and thresholds asked for
Reads ==
    \/ GetStatistics
    \/ GetDailyStats
    \/ \E limit \in 0..2 : GetTimeline(limit)
    \/ \E address \in {"0xaaaa", "0xBBBB"} : LookupAddress(address)
    \/ \E threshold \in {AmountOf(START_BLOCK), AmountOf(START_BLOCK) + 1} :
           GetLargeMigrations(threshold)
    \/ GetPercentiles
    \/ \E now \in Times : GetSyncStatus(now)

\* the tables a SQLite store can hold, as the tool reads them
\* (ORDER BY block_number ASC)
SqliteStores ==
    { get_all_migrations([i \in 1..Len(evs) |-> RowOf(evs[i])]) :
        evs \in { b \in Batches({NoSource}, MaxBatchLen) : Distinct(b) } }

\* what the operator types at the prompt of --force
Confirms == {"DELETE", "delete"}

\* migrate_sqlite_to_postgres.py 23-213: one run of the tool
MigrateData(sqlite_rows, force_delete, dry_run, confirm, err) ==
    /\ deployment = "api"
    /\ LET r == migrate_data(migrations, sync_metadata, sqlite_rows,
                             force_delete, dry_run, confirm, err)
       IN  /\ migrations' = r.rows
           /\ sync_metadata' = r.meta
           /\ last_call' = [op |-> "migrate_data", arg |-> sqlite_rows, ret |-> 0,
                            fresh |-> FALSE, raised |-> err,
                            force_delete |-> force_delete, dry_run |-> dry_run,
                            confirm |-> confirm, existing_count |-> Len(migrations)]
    /\ UNCHANGED <<deployment, height, pass>>

\* the topics of the logs of a receipt: none, a Transfer, an Approval, a
\* bridge event, a bridge signature that is not the first topic
ReceiptTopics ==
    { << >>, << TransferTopics[1] >>, << TransferTopics[1], TransferTopics[2] >>,
      << "0x8c5be1e5" >>, << "0x2849b430", TransferTopics[2] >>,
      << TransferTopics[1], "0x2849b430" >> }

\* the answers of eth_getTransactionByHash and eth_getTransactionReceipt
Lookups(payloads) ==
    { [kind |-> k, logs |-> << >>] : k \in {"raises", "none"} }
        \cup { [kind |-> "ok", logs |-> logs] : logs \in payloads }

\* migration_tracker.py 197-228: one call of analyze_transaction_source
AnalyzeTransactionSource(tx, receipt) ==
    /\ deployment = "backend"
    /\ last_call' = [op |-> "analyze_transaction_source", arg |-> << tx, receipt >>,
                     ret |-> 0, fresh |-> FALSE, raised |-> FALSE,
                     source |-> analyze_transaction_source_raw(tx, receipt)]
    /\ UNCHANGED <<deployment, height, migrations, sync_metadata, pass>>

\* srcs: the "source" values of the events handed over; n: the longest list
ClientInserts(srcs, n) ==
    \/ \E ev \in Events(srcs), err \in BOOLEAN : InsertMigration(ev, err)
    \/ \E evs \in Batches(srcs, n), errAt \in 0..n : InsertMigrationsBatch(evs, errAt)
    \/ \E evs \in Batches(srcs, n), errAt \in 0..n,
          kind \in {"none", "client", "server"} : PgInsertMigrations(evs, errAt, kind)

ClientCursor ==
    \/ \E b \in 0..MaxHeight : UpdateSyncMetadata(b)
    \/ \E b \in 0..MaxHeight : PgUpdateSyncMetadata(b)
    \/ GetLastSyncedBlock

(***************************************************************************)
(* Specifications.  oks: the outcomes of remote and store calls that are   *)
(* let happen ({TRUE}: every call succeeds).                               *)
(***************************************************************************)
Fails(oks, S) == IF FALSE \in oks THEN S ELSE {}

BackendPass(p, oks) ==
    \/ \E full \in BOOLEAN, locOk \in oks, failAt \in {0} \cup Fails(oks, 1..(MaxHeight + 1)) :
           Begin(p, full, locOk, failAt)
    \/ \E ok \in oks : GetHeight(p, ok)
    \/ \E ok \in oks, noTs \in SUBSET Fails(oks, TxUniverse),
          bad \in SUBSET Fails(oks, TxUniverse) : Scan(p, ok, noTs, bad)
    \/ \E ok \in oks : PersistNone(p, ok)
    \/ \E unk \in SUBSET Fails(oks, 0..MaxHeight), errAt \in {0} \cup Fails(oks, 1..(MaxHeight + 1)) :
           Persist(p, unk, errAt)
    \/ \E ok \in oks : UpdateCursor(p, ok)
    \/ \E ok \in oks : Summary(p, ok)

\* ends: the end_block arguments given (None: up to the current block)
ApiPass(p, oks, ends) ==
    \/ \E ok \in oks, start_arg \in {None, 0}, end_arg \in ends :
           ApiBegin(p, ok, start_arg, end_arg)
    \/ \E ok \in oks : ApiStart(p, ok)
    \/ \E ok \in oks, raiseAt \in {0} \cup Fails(oks, 1..(MaxHeight + 1)) : ApiScan(p, ok, raiseAt)
    \/ ApiPersistNone(p)
    \/ \E errAt \in {0} \cup Fails(oks, 1..(MaxHeight + 1)),
          kind \in {"none"} \cup Fails(oks, {"client", "server", "connect"}) :
           ApiPersist(p, errAt, kind)
    \/ \E ok \in oks : ApiCursor(p, ok)

\* one pass at a time, every outcome of every call
Next ==
    \/ ChainAdvance
    \/ BackendPass("p1", BOOLEAN)
    \/ ApiPass("p1", BOOLEAN, {None, START_BLOCK, MaxHeight})

Spec == Init /\ [][Next]_vars

\* two passes interleaved, every call succeeds
NextConc ==
    \/ ChainAdvance
    \/ \E p \in Passes : BackendPass(p, {TRUE}) \/ ApiPass(p, {TRUE}, {None})

SpecConc == Init /\ [][NextConc]_vars

\* the store's operations called directly, in any order
NextStore == ClientInserts({NoSource, "sonic"}, MaxBatchLen)

SpecStore == Init /\ [][NextStore]_vars

\* batches of events that carry a source, any statement of a batch may raise
NextBatch == ClientInserts({"sonic"}, MaxBatchLen)

SpecBatch == Init /\ [][NextBatch]_vars

\* the cursor's operations called directly, in any order
NextCursor == ClientCursor

SpecCursor == Init /\ [][NextCursor]_vars

\* direct inserts (lists of up to two events, enough for a hash repeated
\* inside a list) interleaved with a pass whose calls succeed
NextAll ==
    \/ ChainAdvance
    \/ BackendPass("p1", {TRUE})
    \/ ApiPass("p1", {TRUE}, {None})
    \/ ClientInserts({NoSource}, 2)

SpecAll == Init /\ [][NextAll]_vars

\* one pass at a time, every call succeeds, the pass may be interrupted
\* between two sub-ranges
NextPass ==
    \/ ChainAdvance
    \/ BackendPass("p1", {TRUE})
    \/ ApiPass("p1", {TRUE}, {None})
    \/ Abort("p1")

SpecPass == Init /\ [][NextPass]_vars

\* one pass at a time, every call succeeds; the process may be interrupted
\* and started again, which initialises the store again
NextRestart ==
    \/ ChainAdvance
    \/ BackendPass("p1", {TRUE})
    \/ ApiPass("p1", {TRUE}, {None})
    \/ Abort("p1")
    \/ InitDatabase

SpecRestart == Init /\ [][NextRestart]_vars

\* the read side called in any order between single inserts and cursor
\* updates
NextRead ==
    \/ Reads
    \/ ClientInserts({"sonic"}, 1)
    \/ \E b \in {0, START_BLOCK} : UpdateSyncMetadata(b) \/ PgUpdateSyncMetadata(b)

SpecRead == Init /\ [][NextRead]_vars

\* the amounts of the rows of a store, in PAL
AmountValues == {10, 20, 30, 40, 50}

\* a store with one row per amount, in the order given
StoreOf(amounts) ==
    [i \in 1..Len(amounts) |->
        [tx_hash |-> i, block_number |-> i, block_timestamp |-> BlockTimestamp(i),
         from_address |-> AddressOf(TransferTopics[2]),
         to_address |-> AddressOf(ContractTopic),
         amount_pal |-> amounts[i], source |-> "sonic"]]

\* the percentile query on every store of up to MaxAmounts rows
InitPercentile ==
    /\ deployment \in {"backend", "api"}
    /\ height = 0
    /\ migrations \in { StoreOf(amounts) : amounts \in SeqsUpTo(AmountValues, MaxAmounts) }
    /\ sync_metadata = IF deployment = "backend"
                       THEN init_database(<< >>)
                       ELSE pg_init_database(<< >>)
    /\ pass = [p \in Passes |-> IdlePass]
    /\ last_call = NoCall

NextPercentile == GetPercentiles

SpecPercentile == InitPercentile /\ [][NextPercentile]_vars

\* runs of the tool between direct inserts, on the cursor log that the
\* syncs before the first run left
NextMigrate ==
    \/ \E sqlite_rows \in SqliteStores, force_delete, dry_run, err \in BOOLEAN,
          confirm \in Confirms :
           MigrateData(sqlite_rows, force_delete, dry_run, confirm, err)
    \/ ClientInserts({"sonic"}, 1)
    \/ last_call.op = "none" /\ PgUpdateSyncMetadata(MaxHeight)

SpecMigrate == Init /\ [][NextMigrate]_vars

\* the classifier called on every answer of the two lookups, receipts of
\* up to two logs
NextSource ==
    \E tx \in Lookups({<< >>}),
       receipt \in Lookups(SeqsUpTo({ [topics |-> t] : t \in ReceiptTopics }, 2)) :
        AnalyzeTransactionSource(tx, receipt)

SpecSource == Init /\ [][NextSource]_vars

\* the decoder called on every raw log
NextDecode == \E log \in RawLogs, headerOk \in BOOLEAN : ParseTransferEvent(log, headerOk)

SpecDecode == Init /\ [][NextDecode]_vars

\* the locator called on every chain: code from block D on (D above the
\* height: no code anywhere), any probe may fail
NextLocate ==
    \E D \in 0..(MaxHeight + 1), latest_block \in 0..MaxHeight,
       heightOk \in BOOLEAN, failAt \in 0..(MaxHeight + 1) :
        GetContractDeploymentBlock(D, latest_block, heightOk, failAt)

SpecLocate == Init /\ [][NextLocate]_vars

\* the start of a full sync on every chain: code from block D on (D above
\* the height: no code anywhere), any call of the locator may fail
NextFull ==
    \E D \in 0..(MaxHeight + 1), latest_block \in 0..MaxHeight,
       heightOk \in BOOLEAN, failAt \in 0..(MaxHeight + 1) :
        FullSyncStart(D, latest_block, heightOk, failAt)

SpecFull == Init /\ [][NextFull]_vars

\* an incremental backend pass (sync_migrations(full_sync=False)); fetchOks:
\* the outcomes of its get_logs calls, every other call succeeds
IncrementalPass(p, fetchOks) ==
    \/ Begin(p, FALSE, TRUE, 0)
    \/ GetHeight(p, TRUE)
    \/ \E ok \in fetchOks : Scan(p, ok, {}, {})
    \/ PersistNone(p, TRUE)
    \/ Persist(p, {}, 0)
    \/ UpdateCursor(p, TRUE)
    \/ Summary(p, TRUE)

\* a pass of blockchain_sync.py; fetchOks: the outcomes of its get_logs
\* calls, every other call succeeds
ApiFetchPass(p, fetchOks) ==
    \/ \E start_arg \in {None, 0} : ApiBegin(p, TRUE, start_arg, None)
    \/ ApiStart(p, TRUE)
    \/ \E ok \in fetchOks : ApiScan(p, ok, 0)
    \/ ApiPersistNone(p)
    \/ ApiPersist(p, 0, "none")
    \/ ApiCursor(p, TRUE)

\* the steps of a pass whose fetches may fail
FetchPasses == IncrementalPass("p1", BOOLEAN) \/ ApiFetchPass("p1", BOOLEAN)

\* one pass at a time whose fetches may fail; a pass that has begun runs on
\* (nothing in sync_migrations waits)
NextScan ==
    \/ ChainAdvance
    \/ FetchPasses

SpecScan == Init /\ [][NextScan]_vars /\ WF_vars(FetchPasses)

\* the steps of a backend pass, every outcome of every remote call and store
\* call: the locator's probes, the height, the fetches, the header lookups
\* (noTs), the source lookups (all answered or none), the store calls
AnyBackendPass ==
    \/ \E full \in BOOLEAN, locOk \in BOOLEAN, failAt \in 0..(MaxHeight + 1) :
           Begin("p1", full, locOk, failAt)
    \/ \E ok \in BOOLEAN : GetHeight("p1", ok)
    \/ \E ok \in BOOLEAN, noTs \in SUBSET TxUniverse : Scan("p1", ok, noTs, {})
    \/ \E ok \in BOOLEAN : PersistNone("p1", ok)
    \/ \E unk \in {{}, TxHashes(pass["p1"].all_events)},
          errAt \in 0..Len(pass["p1"].all_events) : Persist("p1", unk, errAt)
    \/ \E ok \in BOOLEAN : UpdateCursor("p1", ok)
    \/ \E ok \in BOOLEAN : Summary("p1", ok)

\* one backend pass at a time, every outcome of every call; a pass that has
\* begun runs on (nothing in sync_migrations waits)
NextTerm ==
    \/ ChainAdvance
    \/ AnyBackendPass

SpecTerm == Init /\ [][NextTerm]_vars /\ WF_vars(AnyBackendPass)

\* a pass in which nothing fails but block-header lookups: noTs are the
\* transactions whose eth_getBlockByNumber fails in _parse_transfer_event,
\* raiseAt is the log at which w3.eth.get_block raises in blockchain_sync.py
HeaderPass(p) ==
    \/ Begin(p, FALSE, TRUE, 0)
    \/ GetHeight(p, TRUE)
    \/ \E noTs \in SUBSET TxUniverse : Scan(p, TRUE, noTs, {})
    \/ PersistNone(p, TRUE)
    \/ Persist(p, {}, 0)
    \/ UpdateCursor(p, TRUE)
    \/ Summary(p, TRUE)
    \/ \E start_arg \in {None, 0} : ApiBegin(p, TRUE, start_arg, None)
    \/ ApiStart(p, TRUE)
    \/ \E raiseAt \in 0..(MaxHeight + 1) : ApiScan(p, TRUE, raiseAt)
    \/ ApiPersistNone(p)
    \/ ApiPersist(p, 0, "none")
    \/ ApiCursor(p, TRUE)

NextHeader ==
    \/ ChainAdvance
    \/ HeaderPass("p1")

SpecHeader == Init /\ [][NextHeader]_vars

\* the passes of p2 come after those of p1 and all their fetches succeed
LaterPasses == pass["p1"].pc = "done" /\ IncrementalPass("p2", {TRUE})

\* incremental passes whose fetches may fail (p1), then the continuous mode
\* of sync.py main, which runs incremental passes for ever (p2), with
\* fetches that succeed
NextHeal ==
    \/ ChainAdvance
    \/ pass["p2"].pc = "idle" /\ IncrementalPass("p1", BOOLEAN)
    \/ LaterPasses

SpecHeal == Init /\ [][NextHeal]_vars /\ WF_vars(LaterPasses)

\* the gateway called with every sequence of answers
NextRpc == \E responses \in [1..MAX_RETRIES -> Responses] : MakeRequest(responses)

SpecRpc == Init /\ [][NextRpc]_vars

(***************************************************************************)
(* Properties.                                                             *)
(***************************************************************************)
UniqueTx(rows) ==
    \A i, j \in 1..Len(rows) : rows[i].tx_hash = rows[j].tx_hash => i = j

\* the rows of before are still there, same place, same content
KeepsRows(before, after) ==
    /\ Len(after) >= Len(before)
    /\ \A i \in 1..Len(before) : after[i] = before[i]

\* first block of the first failed sub-range of a pass
FirstFailed(p) ==
    CHOOSE lo \in { r[1] : r \in pass[p].failed } :
        \A r \in pass[p].failed : lo <= r[1]

Finished(p) == pass[p].pc = "done"

\* a finished pass of sync.py
BackendFinished(p) == deployment = "backend" /\ Finished(p)

\* C1: when a sub-range of a pass failed, the cursor at the end of the pass
\* is at most the end of the last sub-range before the first failed one
\* (or where it was when the pass began)
C1_CursorNotPastFailedRange ==
    \A p \in Passes :
        (BackendFinished(p) /\ pass[p].failed # {})
            => Cursor <= Max(pass[p].cursor0, FirstFailed(p) - 1)

BatchCallOk(evs) ==
    \/ InsertMigrationsBatch(evs, 0)
    \/ PgInsertMigrations(evs, 0, "none")

\* C2: a batch insert of N events with distinct hashes, none stored yet,
\* returns N; the same call made again returns 0 and leaves the rows as
\* they were after the first call
C2_UpsertBatchIdempotent ==
    [][\A evs \in Batches({NoSource, "sonic"}, MaxBatchLen) :
          ( /\ last_call.op \in {"insert_migrations_batch", "insert_migrations"}
            /\ last_call.arg = evs
            /\ last_call.fresh
            /\ BatchCallOk(evs) )
          => ( /\ last_call.ret = Len(evs)
               /\ last_call'.ret = 0
               /\ migrations' = migrations )]_vars

\* C3: an insert (single or batch) that receives a tx_hash already in the
\* store leaves every existing row as it was
C3_FirstWriteWins ==
    [][\A evs \in Batches({NoSource, "sonic"}, MaxBatchLen) :
          ( /\ TxHashes(evs) \cap TxHashes(migrations) # {}
            /\ \/ BatchCallOk(evs)
               \/ Len(evs) = 1 /\ InsertMigration(evs[1], FALSE) )
          => KeepsRows(migrations, migrations')]_vars

\* C4: in every state the cursor covers only blocks whose events are in
\* the event table
C4_CursorCoversOnlyPersisted ==
    deployment = "backend" =>
        \A log \in ChainLogs :
            (START_BLOCK <= log.block_number /\ log.block_number <= Cursor)
                => log.tx_hash \in TxHashes(migrations)

\* C5: no cursor update lowers the stored cursor, and the value read by
\* get_last_synced_block never decreases from one read to the next
C5_MonotonicCursor ==
    [][ /\ \A y \in 0..MaxHeight :
              (UpdateSyncMetadata(y) \/ PgUpdateSyncMetadata(y)) => Cursor' >= Cursor
        /\ (GetLastSyncedBlock /\ last_call.op = "get_last_synced_block")
              => last_call'.ret >= last_call.ret ]_vars

\* C6: a pass whose batch insert hit a store error does not return success
\* and leaves the cursor where it was before the pass
C6_StoreErrorFailsPass ==
    \A p \in Passes :
        (BackendFinished(p) /\ pass[p].store_error)
            => (pass[p].result # "True" /\ Cursor = pass[p].cursor0)

\* C7: the event table holds at most one row per tx_hash
C7_UniqueTxHash == UniqueTx(migrations)

\* C7 witness: a pass has stored its events and a direct batch insert that
\* repeats a hash inside the list has returned
C7_Witness ==
    /\ Finished("p1") /\ pass["p1"].result \in {"True", "count"}
    /\ Len(migrations) >= 2
    /\ last_call.op \in {"insert_migrations_batch", "insert_migrations"}
    /\ ~Distinct(last_call.arg)
    /\ TxHashes(last_call.arg) \subseteq TxHashes(migrations)

\* C8: a pass with a failed sub-range does not return success
C8_NoPartialSuccessAsSuccess ==
    \A p \in Passes :
        (BackendFinished(p) /\ pass[p].failed # {}) => pass[p].result # "True"

\* C9: with passes interleaved the cursor never decreases, the event table
\* keeps one row per tx_hash and no stored event is lost
C9_ConcurrentPassesSafe ==
    [][ /\ Cursor' >= Cursor
        /\ UniqueTx(migrations')
        /\ TxHashes(migrations) \subseteq TxHashes(migrations') ]_vars

\* the scan loop of pass p has been left
AfterLoop(p) ==
    \/ pass[p].pc \in {"persist", "cursor", "summary"}
    \/ Finished(p) /\ pass[p].result \in {"True", "count"}

\* C10: the sub-ranges visited by the scan loop are in increasing order, at
\* most BATCH_SIZE long, contiguous, start at from and end at to; none is
\* visited when from > to
C10_BatchingCorrect ==
    \A p \in Passes :
        LET v == pass[p].visited
            from == pass[p].from_block
            to == pass[p].to_block
        IN  /\ \A i \in 1..Len(v) :
                  /\ v[i][1] <= v[i][2]
                  /\ v[i][2] - v[i][1] + 1 <= BATCH_SIZE
            /\ \A i \in 1..(Len(v) - 1) : v[i + 1][1] = v[i][2] + 1
            /\ v # << >> => v[1][1] = from /\ v[Len(v)][2] <= to
            /\ pass[p].pc = "scan" =>
                  pass[p].batch_start = IF v = << >> THEN from ELSE v[Len(v)][2] + 1
            /\ AfterLoop(p) =>
                  IF from <= to THEN v # << >> /\ v[Len(v)][2] = to
                  ELSE v = << >>

\* C10 witness: a scan that took several sub-ranges, the last one shorter
C10_Witness ==
    \E p \in Passes :
        LET v == pass[p].visited
        IN  /\ pass[p].pc = "persist"
            /\ Len(v) >= 2
            /\ v[Len(v)][2] - v[Len(v)][1] + 1 < BATCH_SIZE

\* index of the first "ok" answer of a sequence of answers, 0 if none
FirstOk(responses) ==
    LET oks == { i \in 1..Len(responses) : responses[i].kind = "ok" }
    IN  IF oks = {} THEN 0 ELSE CHOOSE i \in oks : \A j \in oks : i <= j

\* C11: a gateway call makes at most MAX_RETRIES attempts; it returns the
\* result of the first successful attempt and makes no attempt after it; an
\* RPC error answer counts as a failed attempt like a transport failure;
\* when every attempt fails the call raises instead of returning a value
C11_GatewayRetries ==
    last_call.op = "_make_request" =>
        LET first == FirstOk(last_call.arg)
        IN  /\ last_call.attempts <= MAX_RETRIES
            /\ first # 0 =>
                  /\ ~last_call.raised
                  /\ last_call.attempts = first
                  /\ last_call.ret = last_call.arg[first].result
            /\ first = 0 =>
                  /\ last_call.raised
                  /\ last_call.attempts = MAX_RETRIES

\* C11 witness: an RPC error answer, a transport failure, then a result,
\* which the call returned on its last allowed attempt
C11_Witness ==
    /\ last_call.op = "_make_request"
    /\ last_call.arg[1].kind = "rpc_error"
    /\ last_call.arg[2].kind = "transport"
    /\ last_call.arg[3].kind = "ok"
    /\ last_call.ret = last_call.arg[3].result
    /\ last_call.attempts = 3

\* the pass returned without raising and without the failed result
Succeeded(p) == Finished(p) /\ pass[p].result \in {"True", "count"}

\* C12: a pass that ended successfully leaves the cursor at the chain
\* height it read at its start, also when it found no events
C12_TerminalSuccess ==
    \A p \in Passes : Succeeded(p) => Cursor = pass[p].to_block

\* C13: decoding a raw log with only 2 topics (signature and from) yields
\* no event
C13_TwoTopicsRejected ==
    (last_call.op = "_parse_transfer_event" /\ Len(last_call.arg[1].topics) = 2)
        => ~last_call.event.event

\* pass p takes a sub-range in this step and the fetch of its logs succeeds
FetchedStep(p) ==
    /\ pass[p].pc = "scan"
    /\ Len(pass'[p].visited) = Len(pass[p].visited) + 1
    /\ pass'[p].failed = pass[p].failed

\* C14: when a log of a fetched sub-range fails to decode, every other log
\* of that sub-range is decoded and kept, and is in the event table once the
\* pass has inserted its events without a store error
C14_DecodeErrorsPerEvent ==
    /\ [][\A p \in Passes :
            FetchedStep(p) =>
                LET r == pass'[p].visited[Len(pass'[p].visited)]
                    logs == get_logs(r[1], r[2], height)
                IN  \A i \in 1..Len(logs) :
                        logs[i].tx_hash \notin pass'[p].undecoded
                            => logs[i].tx_hash \in TxHashes(pass'[p].all_events)]_vars
    /\ [](\A p \in Passes :
            (pass[p].pc \in {"cursor", "summary"} /\ ~pass[p].store_error)
                => TxHashes(pass[p].all_events) \subseteq TxHashes(migrations))

\* C15: on a chain with no code below block D and code from D up to the
\* current height, with every probe succeeding, the locator returns D
C15_LocatorReturnsD ==
    ( /\ last_call.op = "get_contract_deployment_block"
      /\ ~last_call.raised /\ ~last_call.aborted
      /\ last_call.arg[1] <= last_call.arg[2] )
        => last_call.ret = last_call.arg[1]

\* C15 witness: the contract was deployed in the upper half of a chain of
\* full height and the locator returned that block after several probes
C15_Witness ==
    /\ last_call.op = "get_contract_deployment_block"
    /\ ~last_call.raised /\ ~last_call.aborted
    /\ last_call.arg[2] = MaxHeight
    /\ last_call.arg[1] = MaxHeight - 1
    /\ last_call.probes >= 2
    /\ last_call.ret = last_call.arg[1]

\* C16: a locator whose code probe failed raises to its caller; it returns
\* no block number
C16_ProbeFailureSurfaces ==
    (last_call.op = "get_contract_deployment_block" /\ last_call.aborted)
        => last_call.raised

\* the log of transaction tx lies in a sub-range whose fetch failed in the
\* last pass of p1
InFailedRange(tx) == \E r \in pass["p1"].failed : r[1] <= tx /\ tx <= r[2]

\* C17: once later incremental passes with succeeding fetches run, every
\* event of a sub-range whose fetch failed in an earlier pass is eventually
\* in the event table
C17_SelfHealing ==
    \A tx \in TxUniverse :
        (pass["p2"].pc # "idle" /\ InFailedRange(tx)) ~> (tx \in TxHashes(migrations))

\* C18: a batch insert returns the number of distinct tx_hash values of the
\* batch that were not in the event table before the call
C18_InsertedCount ==
    [][\A evs \in Batches({NoSource, "sonic"}, MaxBatchLen) :
          BatchCallOk(evs)
              => last_call'.ret = Cardinality(TxHashes(evs) \ TxHashes(migrations))]_vars

\* the configured go-live block of the deployment
DefaultStart == IF deployment = "backend" THEN START_BLOCK ELSE DEFAULT_START_BLOCK

Aborted(p) == Finished(p) /\ pass[p].result = "aborted"

\* C20: after a pass was aborted between two sub-ranges the cursor is where
\* it was when the pass began and every event of the blocks up to the cursor
\* is in the event table
C20_CancellationSafe ==
    \A p \in Passes :
        Aborted(p) =>
            /\ Cursor = pass[p].cursor0
            /\ \A log \in ChainLogs :
                  (START_BLOCK <= log.block_number /\ log.block_number <= Cursor)
                      => log.tx_hash \in TxHashes(migrations)

\* C20 witness: a pass was aborted after its first sub-range, with events
\* collected that are not in the event table
C20_Witness ==
    \E p \in Passes :
        /\ Aborted(p)
        /\ Len(pass[p].visited) = 1
        /\ pass[p].all_events # << >>
        /\ TxHashes(pass[p].all_events) \cap TxHashes(migrations) = {}

\* C21: the SQLite store holds exactly one cursor row in every state, and
\* initialising an existing store again leaves the cursor value and every
\* event row as they were
C21_InitKeepsCursor ==
    [][ /\ deployment = "backend"
            => (Len(sync_metadata) = 1 /\ Len(sync_metadata') = 1)
        /\ InitDatabase
            => ( /\ Cursor' = Cursor
                 /\ sync_metadata' = sync_metadata
                 /\ migrations' = migrations ) ]_vars

\* C21 witness: the SQLite store was initialised again with events stored
\* and the cursor advanced
C21_Witness ==
    /\ deployment = "backend"
    /\ last_call.op = "init_database"
    /\ Cursor > 0
    /\ migrations # << >>
ReadOps ==
    {"get_statistics", "get_daily_stats", "get_timeline", "lookup_address",
     "get_large_migrations", "get_percentiles", "get_sync_status"}

\* C22: a read leaves the event table and the cursor as they are, and a
\* read that follows the same read, with the store as the first one saw
\* it, returns the same answer
C22_ReadSideStable ==
    [][Reads =>
          ( /\ migrations' = migrations
            /\ sync_metadata' = sync_metadata
            /\ ( /\ last_call.op \in ReadOps
                 /\ last_call'.op = last_call.op
                 /\ last_call'.query = last_call.query
                 /\ last_call.seen = << migrations, sync_metadata >> )
               => ( /\ last_call'.result = last_call.result
                    /\ last_call'.raised = last_call.raised ) )]_vars
\* C23: on a non-empty store of N amounts, every percentile p reported is
\* the element at index floor(N * p / 100) of the amounts sorted ascending
C23_NearestRankPercentiles ==
    (last_call.op = "get_percentiles" /\ migrations # << >>)
        => \A p \in Percentiles :
              last_call.result.p[p] =
                  100 * SortedAmounts(migrations)[(Len(migrations) * p) \div 100 + 1]

\* C23, the scenario of the amounts 10, 20, 30, 40, 50: p50 = 30 and p90 = 50
C23_Scenario ==
    (last_call.op = "get_percentiles"
        /\ Amounts(migrations) = << 10, 20, 30, 40, 50 >>)
        => (last_call.result.p[50] = 100 * 30 /\ last_call.result.p[90] = 100 * 50)
\* C24: a dry run of the tool changes neither the Postgres event table nor
\* the cursor; existing rows are deleted only by a run with --force whose
\* operator typed DELETE; a run without --force leaves every existing row
\* as it was
C24_MigrationToolSafe ==
    [][( /\ last_call'.op = "migrate_data"
         /\ MigrateData(last_call'.arg, last_call'.force_delete, last_call'.dry_run,
                        last_call'.confirm, last_call'.raised) )
          => ( /\ last_call'.dry_run => ( /\ migrations' = migrations
                                          /\ sync_metadata' = sync_metadata )
               /\ ~KeepsRows(migrations, migrations')
                     => ( /\ last_call'.force_delete /\ ~last_call'.dry_run
                          /\ last_call'.confirm = "DELETE" )
               /\ ~last_call'.force_delete => KeepsRows(migrations, migrations') )]_vars

\* C24 witness: a run with --force that was not confirmed, on a table with
\* rows that the SQLite store does not hold: the rows are still there
C24_Witness ==
    /\ last_call.op = "migrate_data"
    /\ last_call.force_delete /\ ~last_call.dry_run /\ last_call.confirm # "DELETE"
    /\ last_call.existing_count > 0
    /\ last_call.arg # << >>
    /\ TxHashes(migrations) \cap TxHashes(last_call.arg) = {}
\* the sub-ranges of from_block..to_block, in increasing block order
RECURSIVE SubRanges(_, _)
SubRanges(from_block, to_block) ==
    IF from_block > to_block THEN << >>
    ELSE << << from_block, BatchEnd(from_block, to_block) >> >>
            \o SubRanges(BatchEnd(from_block, to_block) + 1, to_block)

\* the transactions of the logs of the sub-ranges rs whose fetch did not
\* fail, in block order
RECURSIVE KeptTx(_, _)
KeptTx(rs, failed) ==
    IF rs = << >> THEN << >>
    ELSE LET logs == IF Head(rs) \in failed THEN << >>
                     ELSE get_logs(Head(rs)[1], Head(rs)[2], height)
         IN  [i \in 1..Len(logs) |-> logs[i].tx_hash] \o KeptTx(Tail(rs), failed)

\* C25: a pass in which the fetch of a sub-range failed still leaves its
\* scan loop, and when it does it has attempted every sub-range of its
\* block range in increasing order and holds the events of every sub-range
\* whose fetch did not fail
C25_PartialFailureTolerated ==
    /\ [](\A p \in Passes :
            pass[p].pc = "persist" =>
                /\ pass[p].visited = SubRanges(pass[p].from_block, pass[p].to_block)
                /\ [i \in 1..Len(pass[p].all_events) |-> pass[p].all_events[i].tx_hash]
                      = KeptTx(pass[p].visited, pass[p].failed))
    /\ \A p \in Passes :
          (pass[p].pc = "scan" /\ pass[p].failed # {}) ~> (pass[p].pc = "persist")

\* C25 witness: the fetch of the first sub-range failed, the later one was
\* attempted and its events are held
C25_Witness ==
    /\ pass["p1"].pc = "persist"
    /\ Len(pass["p1"].visited) >= 2
    /\ pass["p1"].visited[1] \in pass["p1"].failed
    /\ pass["p1"].all_events # << >>
\* C26: when block-header lookups fail during a pass, the pass still holds
\* an event for every log of the sub-ranges it fetched, and the event of a
\* log whose lookup failed has block_timestamp null
C26_MissingTimestampKeepsEvent ==
    \A p \in Passes :
        pass[p].pc = "persist" =>
            /\ [i \in 1..Len(pass[p].all_events) |-> pass[p].all_events[i].tx_hash]
                  = KeptTx(pass[p].visited, pass[p].failed)
            /\ \A tx \in pass[p].undecoded :
                  \E i \in 1..Len(pass[p].all_events) :
                      /\ pass[p].all_events[i].tx_hash = tx
                      /\ pass[p].all_events[i].block_timestamp = None
RECURSIVE Log2Floor(_)
Log2Floor(n) == IF n <= 1 THEN 0 ELSE 1 + Log2Floor(n \div 2)

\* C27: a search over [0, H] that returns has made at most
\* floor(log2(H + 1)) + 1 code-at-address probes
C27_ProbeBound ==
    (last_call.op = "get_contract_deployment_block" /\ ~last_call.raised)
        => ( /\ last_call.probes >= 1
             /\ last_call.probes <= Log2Floor(last_call.arg[2] + 1) + 1 )

\* C27 witness: a search over the whole chain in which no probe failed made
\* exactly floor(log2(H + 1)) + 1 probes
C27_Witness ==
    /\ last_call.op = "get_contract_deployment_block"
    /\ ~last_call.raised /\ ~last_call.aborted
    /\ last_call.arg[2] = MaxHeight
    /\ last_call.probes = Log2Floor(MaxHeight + 1) + 1
HasBridgeLog(logs) ==
    \E i \in 1..Len(logs) :
        logs[i].topics # << >> /\ logs[i].topics[1] \in bridge_signatures

\* C28: analyze_transaction_source never raises; it returns "unknown" when
\* the transaction or the receipt is missing or a lookup raises, "ethereum"
\* when a log of the receipt has a bridge signature as its first topic, and
\* "sonic" otherwise
C28_SourceClassificationTotal ==
    last_call.op = "analyze_transaction_source" =>
        LET tx == last_call.arg[1]
            receipt == last_call.arg[2]
        IN  /\ ~last_call.raised
            /\ last_call.source =
                  IF tx.kind # "ok" \/ receipt.kind # "ok" THEN "unknown"
                  ELSE IF HasBridgeLog(receipt.logs) THEN "ethereum"
                  ELSE "sonic"

\* C28 witness: a receipt of two logs, only the second with a bridge
\* signature as first topic, was classified "ethereum"
C28_Witness ==
    /\ last_call.op = "analyze_transaction_source"
    /\ last_call.arg[1].kind = "ok" /\ last_call.arg[2].kind = "ok"
    /\ Len(last_call.arg[2].logs) = 2
    /\ ~HasBridgeLog(SubSeq(last_call.arg[2].logs, 1, 1))
    /\ last_call.source = "ethereum"
\* C29: every event row written by a sync pass has from_address and
\* to_address in lower case
C29_AddressesLowerCase ==
    \A i \in 1..Len(migrations) :
        /\ Lower(migrations[i].from_address) = migrations[i].from_address
        /\ Lower(migrations[i].to_address) = migrations[i].to_address
\* event a is older than event b (both with a known timestamp)
Older(a, b) ==
    /\ a.block_timestamp # None /\ b.block_timestamp # None
    /\ a.block_timestamp < b.block_timestamp

\* C30: the timeline query returns at most `limit` events, most recent
\* first: no returned event is older than one that follows it
C30_TimelineOrder ==
    last_call.op = "get_timeline" =>
        /\ Len(last_call.result) <= last_call.query[1]
        /\ \A i, j \in 1..Len(last_call.result) :
               i < j => ~Older(last_call.result[i], last_call.result[j])
\* C31: when the INSERT of some event of a batch raises,
\* insert_migrations_batch returns 0 and leaves the event table exactly as
\* it was before the call
C31_BatchAtomicOnError ==
    [][(/\ last_call'.op = "insert_migrations_batch"
        /\ last_call'.errAt > 0
        /\ InsertMigrationsBatch(last_call'.arg, last_call'.errAt))
           => (migrations' = migrations /\ last_call'.ret = 0)]_vars

\* C31 witness: the second INSERT of a batch of two raised; the first
\* event of the batch is not in the table, which holds an earlier event
C31_Witness ==
    /\ last_call.op = "insert_migrations_batch"
    /\ Len(last_call.arg) = 2 /\ last_call.errAt = 2
    /\ last_call.ret = 0
    /\ migrations # << >>
    /\ last_call.arg[1].tx_hash \notin TxHashes(migrations)
\* the sub-ranges of BATCH_SIZE blocks that cover from_block..to_block
RangeCount(from_block, to_block) ==
    IF from_block > to_block THEN 0
    ELSE (to_block - from_block) \div BATCH_SIZE + 1

\* C32: whatever the outcome of each remote call and store call, a sync pass
\* that has begun reaches a return, after no more sub-range fetches than
\* there are sub-ranges between its start block and the height it read
C32_PassTerminates ==
    /\ [](Len(pass["p1"].visited)
              <= RangeCount(pass["p1"].from_block, pass["p1"].to_block))
    /\ (pass["p1"].pc \notin {"idle", "done"}) ~> (pass["p1"].pc = "done")

\* C32 witness: a pass returned after two sub-range fetches, one of which
\* failed
C32_Witness ==
    /\ deployment = "backend"
    /\ pass["p1"].pc = "done"
    /\ pass["p1"].result \in {"True", "False"}
    /\ Len(pass["p1"].visited) = 2
    /\ pass["p1"].failed # {}
\* C33: when the start block of a pass is greater than the chain height it
\* reads, the pass returns success without fetching any logs and leaves the
\* event table and the cursor unchanged
C33_AlreadyUpToDate ==
    [][\A p \in Passes :
          (pass[p].from_block > height /\ GetHeight(p, TRUE))
              => /\ pass'[p].pc = "done" /\ pass'[p].result = "True"
                 /\ pass'[p].visited = << >>
                 /\ migrations' = migrations
                 /\ sync_metadata' = sync_metadata]_vars

\* C33 witness: an incremental pass that began right after the cursor of an
\* earlier pass, with no new block since, returned success without a fetch
C33_Witness ==
    /\ deployment = "backend"
    /\ pass["p1"].pc = "done" /\ pass["p1"].result = "True"
    /\ pass["p1"].incremental
    /\ pass["p1"].from_block > pass["p1"].to_block
    /\ pass["p1"].to_block = height
    /\ pass["p1"].visited = << >>
    /\ migrations # << >>
    /\ Cursor = height
\* C34: a full sync starts at the block the locator returned when that
\* block is greater than START_BLOCK, and at START_BLOCK otherwise, also
\* when the locator raises or returns 0; it never starts below START_BLOCK
C34_FullSyncStartBlock ==
    last_call.op = "full_sync_start" =>
        /\ ~last_call.raised
        /\ last_call.ret >= START_BLOCK
        /\ (last_call.locator_raised \/ last_call.located <= START_BLOCK)
              => last_call.ret = START_BLOCK
        /\ (~last_call.locator_raised /\ last_call.located > START_BLOCK)
              => last_call.ret = last_call.located

\* C34 witness: the contract was deployed after START_BLOCK, every probe
\* succeeded and the full sync starts at the deployment block
C34_Witness ==
    /\ last_call.op = "full_sync_start"
    /\ ~last_call.locator_raised /\ ~last_call.aborted
    /\ last_call.arg[1] > START_BLOCK /\ last_call.arg[1] <= last_call.arg[2]
    /\ last_call.located = last_call.arg[1]
    /\ last_call.ret = last_call.arg[1]
\* the run of the tool wrote the cursor row: not a dry run, confirmed when
\* forced, no store error, and the SQLite store holds an event
ToolWroteCursor(call) ==
    /\ ~call.dry_run /\ ~call.raised
    /\ call.force_delete => call.confirm = "DELETE"
    /\ call.arg # << >>

\* C35: on the Postgres store get_last_synced_block returns 0 when no
\* cursor write has happened, and after a cursor write, by
\* update_sync_metadata or by the migration tool, the block number of that
\* write
C35_CursorReadYourWrite ==
    /\ [](deployment = "api" /\ sync_metadata = << >>
              => pg_get_last_synced_block(sync_metadata) = 0)
    /\ [][ /\ \A b \in 0..MaxHeight :
                 PgUpdateSyncMetadata(b)
                     => pg_get_last_synced_block(sync_metadata') = b
           /\ ( /\ last_call'.op = "migrate_data"
                /\ ToolWroteCursor(last_call')
                /\ MigrateData(last_call'.arg, last_call'.force_delete,
                               last_call'.dry_run, last_call'.confirm,
                               last_call'.raised) )
                 => pg_get_last_synced_block(sync_metadata')
                        = MaxBlock(last_call'.arg) ]_vars
\* C36: on every non-empty SQLite store the median of get_statistics (the
\* row at offset COUNT/2 of the amounts in ascending order) equals the p50
\* of calculate_percentiles over the same rows
C36_MedianAgreesWithP50 ==
    (last_call.op = "get_percentiles" /\ deployment = "backend"
        /\ migrations # << >>)
        => last_call.result.p[50]
               = 100 * get_statistics(migrations).median_migration_size

\* C36 witness: four rows stored out of order; both values are the third
\* smallest amount
C36_Witness ==
    /\ last_call.op = "get_percentiles" /\ deployment = "backend"
    /\ Amounts(migrations) = << 40, 10, 30, 20 >>
    /\ last_call.result.p[50] = 100 * 30
    /\ get_statistics(migrations).median_migration_size = 30
====
